---------------------------- MODULE Spec2Model ----------------------------
(***************************************************************************)
(* State-machine model of the concurrent MCP server framework:             *)
(*   - RequestQueue          (src/src/request-queue.ts)                    *)
(*   - RateLimiter           (src/src/rate-limiter.ts)                     *)
(*   - registry, pipeline build, HTTP transport                            *)
(*                           (src/src/concurrent-server.ts)                *)
(*   - middleware runner and built-in middlewares                          *)
(*                           (src/src/middleware/*.ts, src/src/auth/*.ts)  *)
(*                                                                         *)
(* JavaScript runs one job at a time, so every action below is one         *)
(* synchronous segment of code: from a call or a resumption up to the next *)
(* await that really suspends.  Each component has its own specification   *)
(* (SpecQueue, SpecRL, SpecReg, SpecPipe, SpecBp, SpecHttp); the variables *)
(* of the components a specification does not use stay at their initial    *)
(* values.                                                                 *)
(***************************************************************************)
EXTENDS Integers, Sequences, FiniteSets, TLC

VARIABLES
    \* ---- RequestQueue (request-queue.ts) ----
    strategy,       \* 'sleep' | 'queue' | 'reject'
    maxConcurrent,  \* options.maxConcurrent
    inFlight,       \* private inFlight
    waitQueue,      \* private waitQueue: the resolve closures, by task
    microtasks,     \* tasks whose resolve() was called, not yet resumed (FIFO)
    qpc,            \* where each task stands with respect to acquire()
    qres,           \* outcome of each task's last acquire()
    pending,        \* history: tasks inside acquire(), in arrival order
    strayReleases,  \* history: release() calls made without holding a slot
    \* ---- RateLimiter (rate-limiter.ts), one entry per limiter instance ----
    maxRequests,    \* options.maxRequests
    windowMs,       \* options.windowMs
    requestCounts,  \* private requestCounts: Map<string, number[]>
    now,            \* Date.now()
    rlpc,           \* where each waitForSlot() caller stands
    rlwait,         \* the limiter and key a waitForSlot() caller waits for
    retries,        \* waitForSlot's local retries
    wakeAt,         \* when the backoff timer of a waitForSlot() caller fires
    lastCheck,      \* the last checkLimit() call: limiter, key, result
    granted         \* history: per limiter and key, the times at which
                    \* checkLimit returned true (those that no window can
                    \* contain any more are dropped)
VARIABLES
    \* ---- registry (concurrent-server.ts) ----
    tools,          \* private tools: Map<string, ToolWithHandler>, as a
                    \* function from the registered names to requiredScopes
    resources,      \* private resources: Map<string, RegisteredResourceInfo>,
                    \* as the set of its keys
    started,        \* private started
    lastReg         \* history: the last registration call, the registry
                    \* before it and whether it returned or threw

qvars == <<strategy, maxConcurrent, inFlight, waitQueue, microtasks, qpc, qres,
           pending, strayReleases>>

rlvars == <<maxRequests, windowMs, requestCounts, now, rlpc, rlwait, retries,
            wakeAt, lastCheck, granted>>

VARIABLES
    \* ---- pipeline (concurrent-server.ts, middleware/runner.ts) ----
    rateLimit,          \* options.rateLimit: "none" or its onLimitExceeded
    authProvider,       \* whether this.authProvider is set
    schemaValidator,    \* whether this.schemaValidator is set
    customMiddlewares,  \* private customMiddlewares, by behaviour
    middlewares,        \* the list the runner was created with
    toolScopes,         \* the map the scope middleware was created with
    calls,              \* per task: the ctx and the runner's closure of its
                        \* executeToolCall, where it stands, and its history
    liveOps             \* history: number of registerToolLive/unregisterTool
                        \* calls made after start

VARIABLES
    \* ---- HTTP transport (concurrent-server.ts, startHttp) ----
    httpRateLimit,  \* options.ipRateLimit: "none" or its onLimitExceeded
    sessions,       \* private sessions: Map<string, {createdAt, lastActivity}>,
                    \* as a function from the session ids to lastActivity
    sessionSeq,     \* number of ids generateSessionId() has returned
    sseClients,     \* private sseClients, as the set of streaming tasks per key
    nextCleanupAt,  \* when the setInterval timer of cleanupSessions fires next
    reqs            \* per task: the HTTP request it is handling, where the
                    \* handler stands, the response, and the request's history

regvars == <<tools, resources, started, lastReg>>

pipecfg == <<rateLimit, authProvider, schemaValidator, customMiddlewares,
             middlewares, toolScopes>>

pipevars == <<pipecfg, calls, liveOps>>

httpvars == <<httpRateLimit, sessions, sessionSeq, sseClients, nextCleanupAt,
              reqs>>

VARIABLES
    \* ---- MessageSigner (message-signer.ts) ----
    cryptoKey,      \* whether this.cryptoKey is set (init() has run)
    sendSeq,        \* private sendSeq
    lastRecvSeq,    \* private lastRecvSeq
    outbox,         \* the message the last sign() returned
    verifs          \* per task: its verify() call, where it stands, its
                    \* result, and lastRecvSeq as the call read it

sigvars == <<cryptoKey, sendSeq, lastRecvSeq, outbox, verifs>>

VARIABLES
    \* ---- callers of the RateLimiter's read-only methods ----
    lastQuery       \* the last getCurrentCount / getRemainingRequests /
                    \* getTimeUntilSlot call: its key, the time of the call
                    \* and the value it returned

rlqvars == <<lastQuery>>

VARIABLES
    \* ---- JwtAuthProvider (auth/provider.ts) ----
    tokenCache,     \* private tokenCache: Map<string, CachedAuth>, as the
                    \* sequence of its entries in the Map's iteration order
    jwtCalls        \* per task: its verifyToken() call, where it stands and
                    \* what it returned

jwtvars == <<tokenCache, jwtCalls>>

VARIABLES
    \* ---- JwtAuthProvider.extractScopes (auth/provider.ts) ----
    jwtPayload,     \* the verified JWT payload, its scope and scp claims
    extracted       \* what extractScopes(payload) returned, once called

scopevars == <<jwtPayload, extracted>>

VARIABLES
    \* ---- server-initiated SSE sends (concurrent-server.ts) ----
    sseLists,       \* private sseClients: per key the array of its SSEClient
                    \* objects, in array order
    controllers,    \* per client: the key it registered under and the state
                    \* of its stream controller
    sentIds         \* the event ids of the messages sent so far, in order

ssevars == <<sseLists, controllers, sentIds>>

VARIABLES
    \* ---- stop() and the sampling bridge (concurrent-server.ts) ----
    stops,          \* per caller: its stop() call, where it stands and the
                    \* shutdown steps it has made, in order
    timerCleared,   \* stop() has cleared this.sessionCleanupTimer
    pendingRequests,\* SamplingBridge.pendingRequests, as its size
    httpShutdown,   \* this.httpServer: "no" shutdown asked, shutdown()
                    \* "begun", or "done" (the field is null again)
    protocolClosed  \* this.mcpServer.server.close() was called

stopvars == <<stops, timerCleared, pendingRequests, httpShutdown,
              protocolClosed>>

\* the components beside the server
extvars == <<sigvars, rlqvars, jwtvars, scopevars, ssevars, stopvars>>

\* the server's own variables
servervars == <<qvars, rlvars, regvars, pipevars, httpvars>>

vars == <<servervars, extvars>>

-----------------------------------------------------------------------------
(* Bounds of the model *)

NTasks == 3         \* tasks (callers of the queue)
NWorkers == 2       \* tasks that make calls and requests at once
MaxConc == 2        \* largest maxConcurrent tried
MaxStray == 1       \* release() calls without a slot
NKeys == 1          \* rate-limit keys (client ids, IPs)
MaxReq == 2         \* largest maxRequests tried
MaxWindow == 2      \* largest windowMs tried (in clock ticks)
MaxTime == 4        \* the clock stops here
MaxPipeTime == 1    \* the clock stops here when the pipeline is run

BaseDelay == 1      \* waitForSlot: baseDelay = 100 ms, the clock's tick
MaxDelay == 10      \* waitForSlot: the cap of 1000 ms, in ticks

NTools == 2         \* tool names
NUris == 2          \* resource URIs
MaxUser == 1        \* middlewares given to use()
MaxLive == 1        \* registerToolLive/unregisterTool calls after start
MaxSessionIds == 2  \* session ids generateSessionId() may return
MaxBatch == 2       \* longest batch given to registerTools/registerResources

Tasks == 1..NTasks
Workers == {c \in Tasks : c <= NWorkers}
Keys == 1..NKeys
Strategies == {"reject", "queue", "sleep"}

\* the limiter instances of a server: this.rateLimiter (tool calls),
\* this.initRateLimiter (initialize, per IP), httpRateLimiter (per IP)
Limiters == {"tool", "init", "http"}

-----------------------------------------------------------------------------
(* Small helpers *)

Range(s) == {s[i] : i \in 1..Len(s)}

RemoveFirst(s, x) ==
    IF \E i \in 1..Len(s) : s[i] = x
    THEN LET i == CHOOSE k \in 1..Len(s) : s[k] = x /\ \A j \in 1..(k-1) : s[j] # x
         IN  SubSeq(s, 1, i-1) \o SubSeq(s, i+1, Len(s))
    ELSE s

\* the sequences over S of length at most n
SeqsUpTo(S, n) == UNION {[1..k -> S] : k \in 0..n}

\* Map.set(k, v) and Map.delete(k) on a map held as a function
MapSet(m, k, v) == [x \in (DOMAIN m) \cup {k} |-> IF x = k THEN v ELSE m[x]]
MapDelete(m, k) == [x \in (DOMAIN m) \ {k} |-> m[x]]

Min(a, b) == IF a < b THEN a ELSE b
Max(a, b) == IF a > b THEN a ELSE b

RECURSIVE Pow2(_)
Pow2(n) == IF n = 0 THEN 1 ELSE 2 * Pow2(n - 1)

-----------------------------------------------------------------------------
(* RequestQueue *)

NoResult == [kind |-> "none", limit |-> 0]
OkResult == [kind |-> "ok", limit |-> 0]

\* mutant of CapacityError: the error carries the current load, not the limit
CapacityErrorWithLoad(limit) == [kind |-> "capacity", limit |-> inFlight + 1]

\* the error thrown by the reject strategy:
\* `Server at capacity (${this.maxConcurrent} concurrent requests)`
CapacityError(limit) == [kind |-> "capacity", limit |-> limit]

\* mutant of AtCapacity: the comparison off by one
AtCapacityOffByOne == inFlight > maxConcurrent

\* the capacity test of acquire(): this.inFlight >= this.maxConcurrent
AtCapacity == inFlight >= maxConcurrent

QueueInit ==
    /\ strategy \in Strategies
    /\ maxConcurrent \in 1..MaxConc
    /\ inFlight = 0
    /\ waitQueue = <<>>
    /\ microtasks = <<>>
    /\ qpc = [c \in Tasks |-> "idle"]
    /\ qres = [c \in Tasks |-> NoResult]
    /\ pending = <<>>
    /\ strayReleases = 0

\* the queue of a specification that does not use it
QueueIdle ==
    /\ strategy = "sleep"
    /\ maxConcurrent = 1
    /\ inFlight = 0
    /\ waitQueue = <<>>
    /\ microtasks = <<>>
    /\ qpc = [c \in Tasks |-> "idle"]
    /\ qres = [c \in Tasks |-> NoResult]
    /\ pending = <<>>
    /\ strayReleases = 0

\* this.inFlight++; return  -- the task now holds a slot
Admit(c) ==
    /\ inFlight' = inFlight + 1
    /\ qpc' = [qpc EXCEPT ![c] = "holding"]
    /\ qres' = [qres EXCEPT ![c] = OkResult]
    /\ pending' = RemoveFirst(pending, c)

\* One pass of a strategy's loop from its test: either the slot is taken, or
\* the task suspends (queue: pushes its resolve closure; sleep: a timer), or
\* (reject) the call throws.
AcquireTest(c, arrived) ==
    IF strategy = "reject"
    THEN IF AtCapacity
         THEN /\ qres' = [qres EXCEPT ![c] = CapacityError(maxConcurrent)]
              /\ qpc' = [qpc EXCEPT ![c] = "idle"]
              /\ UNCHANGED <<inFlight, waitQueue, pending>>
         ELSE Admit(c) /\ UNCHANGED waitQueue
    ELSE IF AtCapacity
         THEN /\ qpc' = [qpc EXCEPT ![c] =
                           IF strategy = "queue" THEN "waiting" ELSE "sleeping"]
              /\ waitQueue' = IF strategy = "queue"
                              THEN Append(waitQueue, c) ELSE waitQueue
              /\ pending' = IF arrived THEN Append(pending, c) ELSE pending
              /\ UNCHANGED <<inFlight, qres>>
         ELSE Admit(c) /\ UNCHANGED waitQueue

\* acquire(), from the call to its first suspension, its return or its throw
Acquire(c) ==
    /\ AcquireTest(c, TRUE)
    /\ UNCHANGED <<strategy, maxConcurrent, microtasks, strayReleases>>

\* acquire() of the queue strategy resumed after its resolve() was called:
\* the while loop tests the capacity again.  Promise reactions run in the
\* order in which they were queued, hence the head of microtasks.
AcquireResume(c) ==
    /\ microtasks # <<>>
    /\ Head(microtasks) = c
    /\ microtasks' = Tail(microtasks)
    /\ AcquireTest(c, FALSE)
    /\ UNCHANGED <<strategy, maxConcurrent, strayReleases>>

\* acquire() of the sleep strategy resumed by its timer
AcquireSleepWake(c) ==
    /\ AcquireTest(c, FALSE)
    /\ UNCHANGED <<strategy, maxConcurrent, microtasks, strayReleases>>

\* mutant of Release: the waiter pushed last is woken (pop for shift)
ReleaseWakesLast(by) ==
    LET wake == strategy = "queue" /\ Len(waitQueue) > 0
        last == IF wake THEN waitQueue[Len(waitQueue)] ELSE 0
    IN  /\ inFlight' = inFlight - 1
        /\ waitQueue' = IF wake THEN SubSeq(waitQueue, 1, Len(waitQueue) - 1)
                        ELSE waitQueue
        /\ microtasks' = IF wake THEN Append(microtasks, last) ELSE microtasks
        /\ qpc' = [x \in Tasks |->
                     IF x = last THEN "woken"
                     ELSE IF x = by THEN "idle" ELSE qpc[x]]
        /\ UNCHANGED <<strategy, maxConcurrent, qres, pending>>

\* release() called by `by` (0: by code that holds no slot): this.inFlight--,
\* then, with the queue strategy, shift the head of waitQueue and call it
Release(by) ==
    LET wake == strategy = "queue" /\ Len(waitQueue) > 0
        head == IF wake THEN Head(waitQueue) ELSE 0
    IN  /\ inFlight' = inFlight - 1
        /\ waitQueue' = IF wake THEN Tail(waitQueue) ELSE waitQueue
        /\ microtasks' = IF wake THEN Append(microtasks, head) ELSE microtasks
        /\ qpc' = [x \in Tasks |->
                     IF x = head THEN "woken"
                     ELSE IF x = by THEN "idle" ELSE qpc[x]]
        /\ UNCHANGED <<strategy, maxConcurrent, qres, pending>>

-----------------------------------------------------------------------------
(* RateLimiter.  rc is the requestCounts map of one limiter, a function    *)
(* whose domain is the set of keys the map holds.                          *)

\* this.requestCounts.get(key) || []
GetRequests(rc, key) == IF key \in DOMAIN rc THEN rc[key] ELSE <<>>

\* this.requestCounts.set(key, list)
SetRequests(rc, key, list) ==
    [k \in (DOMAIN rc) \cup {key} |-> IF k = key THEN list ELSE rc[k]]

\* mutant of ValidRequests: nothing is filtered out
ValidRequestsUnfiltered(lim, requests) == requests

\* requests.filter((time) => now - time < this.windowMs)
ValidRequests(lim, requests) ==
    SelectSeq(requests, LAMBDA time : now - time < windowMs[lim])

\* mutant of LimitReached: the comparison off by one
LimitReachedOffByOne(lim, valid) == Len(valid) > maxRequests[lim]

\* validRequests.length >= this.maxRequests
LimitReached(lim, valid) == Len(valid) >= maxRequests[lim]

\* the value checkLimit(key) returns, the limiters being in state rcs
CheckLimitResult(rcs, lim, key) ==
    ~LimitReached(lim, ValidRequests(lim, GetRequests(rcs[lim], key)))

\* the limiters after checkLimit(key) on limiter lim
CheckLimitCounts(rcs, lim, key) ==
    LET valid == ValidRequests(lim, GetRequests(rcs[lim], key))
    IN  [rcs EXCEPT ![lim] =
            SetRequests(@, key, IF LimitReached(lim, valid)
                                THEN valid ELSE Append(valid, now))]

\* the history of grants after a checkLimit(key) that returned ok
GrantedAfter(g, lim, key, ok) ==
    IF ok THEN [g EXCEPT ![lim][key] = Append(@, now)] ELSE g

\* checkLimit(key) on limiter lim, as the only limiter call of an action
CheckLimit(lim, key) ==
    /\ requestCounts' = CheckLimitCounts(requestCounts, lim, key)
    /\ lastCheck' = [lim |-> lim, key |-> key,
                     ok |-> CheckLimitResult(requestCounts, lim, key)]
    /\ granted' = GrantedAfter(granted, lim, key,
                               CheckLimitResult(requestCounts, lim, key))

\* Math.min(baseDelay * Math.pow(2, retries), 1000), in ticks of baseDelay
BackoffDelay(r) == Min(BaseDelay * Pow2(r), MaxDelay)

\* const oldest = Math.min(...validRequests)
RECURSIVE SeqMin(_)
SeqMin(s) == IF Len(s) = 1 THEN s[1] ELSE Min(s[1], SeqMin(Tail(s)))

\* mutant of GetCurrentCount: the length of the stored list, unfiltered
GetCurrentCountStored(rcs, lim, key) == Len(GetRequests(rcs[lim], key))

\* getCurrentCount(key):
\* requests.filter((time) => now - time < this.windowMs).length
GetCurrentCount(rcs, lim, key) ==
    Len(SelectSeq(GetRequests(rcs[lim], key),
                  LAMBDA time : now - time < windowMs[lim]))

\* getRemainingRequests(key)
GetRemainingRequests(rcs, lim, key) ==
    Max(0, maxRequests[lim] - GetCurrentCount(rcs, lim, key))

\* getTimeUntilSlot(key)
GetTimeUntilSlot(rcs, lim, key) ==
    LET valid == ValidRequests(lim, GetRequests(rcs[lim], key))
    IN  IF Len(valid) < maxRequests[lim] THEN 0
        ELSE IF valid = <<>> THEN 0
        ELSE Max(0, SeqMin(valid) + windowMs[lim] - now)

NoWait == [lim |-> "tool", key |-> 1]

RLInit ==
    /\ maxRequests \in [Limiters -> 1..MaxReq]
    /\ windowMs \in [Limiters -> 1..MaxWindow]
    /\ maxRequests["init"] = 1 /\ maxRequests["http"] = 1
    /\ windowMs["init"] = 1 /\ windowMs["http"] = 1
    /\ requestCounts = [l \in Limiters |-> <<>>]
    /\ now = 0
    /\ rlpc = [w \in Tasks |-> "idle"]
    /\ rlwait = [w \in Tasks |-> NoWait]
    /\ retries = [w \in Tasks |-> 0]
    /\ wakeAt = [w \in Tasks |-> 0]
    /\ lastCheck = [lim |-> "tool", key |-> 0, ok |-> FALSE]
    /\ granted = [l \in Limiters |-> [k \in Keys |-> <<>>]]

\* the limiters of a specification that does not use them
RLIdle ==
    /\ maxRequests = [l \in Limiters |-> 1]
    /\ windowMs = [l \in Limiters |-> 1]
    /\ requestCounts = [l \in Limiters |-> <<>>]
    /\ now = 0
    /\ rlpc = [w \in Tasks |-> "idle"]
    /\ rlwait = [w \in Tasks |-> NoWait]
    /\ retries = [w \in Tasks |-> 0]
    /\ wakeAt = [w \in Tasks |-> 0]
    /\ lastCheck = [lim |-> "tool", key |-> 0, ok |-> FALSE]
    /\ granted = [l \in Limiters |-> [k \in Keys |-> <<>>]]

NoQuery == [op |-> "none", key |-> 0, at |-> 0, value |-> 0]

\* no read-only method has been called
RLQueryIdle == lastQuery = NoQuery

\* a read-only method of limiter lim is called for key: nothing is stored
Query(op, lim, key) ==
    /\ lastQuery' =
          [op |-> op, key |-> key, at |-> now,
           value |-> CASE op = "getCurrentCount" ->
                            GetCurrentCount(requestCounts, lim, key)
                       [] op = "getRemainingRequests" ->
                            GetRemainingRequests(requestCounts, lim, key)
                       [] op = "getTimeUntilSlot" ->
                            GetTimeUntilSlot(requestCounts, lim, key)]
    /\ UNCHANGED rlvars

\* one pass of waitForSlot's loop: while (!this.checkLimit(key)) { sleep }
WaitForSlotStep(w, lim, key, r) ==
    /\ CheckLimit(lim, key)
    /\ IF CheckLimitResult(requestCounts, lim, key)
       THEN /\ rlpc' = [rlpc EXCEPT ![w] = "idle"]
            /\ UNCHANGED <<retries, wakeAt>>
       ELSE /\ rlpc' = [rlpc EXCEPT ![w] = "backoff"]
            /\ wakeAt' = [wakeAt EXCEPT ![w] = now + BackoffDelay(r)]
            /\ retries' = [retries EXCEPT ![w] = r + 1]
    /\ rlwait' = [rlwait EXCEPT ![w] = [lim |-> lim, key |-> key]]
    /\ UNCHANGED <<maxRequests, windowMs, now>>

\* time passes by one tick, up to limit
Tick(limit) ==
    /\ now < limit
    /\ now' = now + 1
    /\ granted' = [l \in Limiters |-> [k \in Keys |->
                     SelectSeq(granted[l][k],
                               LAMBDA t : now' - t <= windowMs[l])]]
    /\ UNCHANGED <<maxRequests, windowMs, requestCounts, rlpc, rlwait, retries,
                   wakeAt, lastCheck>>

-----------------------------------------------------------------------------
(* Registry of tools and resources (concurrent-server.ts) *)

ToolNames == 1..NTools
Uris == 1..NUris

\* the requiredScopes a tool is declared with
ScopeLists == {<<>>, <<"read", "write">>}

NoReg == [op |-> "none", ok |-> TRUE, before |-> {}, batch |-> <<>>]

RegInit ==
    /\ tools = <<>>
    /\ resources = {}
    /\ started = FALSE
    /\ lastReg = NoReg

\* the registry of a specification that does not use it
RegIdle ==
    /\ tools = <<>>
    /\ resources = {}
    /\ started = FALSE
    /\ lastReg = NoReg

\* registerTool(tool, handler)
RegisterTool(name, scopes) ==
    /\ IF started
       THEN /\ lastReg' = [op |-> "registerTool", ok |-> FALSE,
                           before |-> DOMAIN tools, batch |-> <<name>>]
            /\ UNCHANGED tools
       ELSE /\ tools' = MapSet(tools, name, scopes)
            /\ lastReg' = [op |-> "registerTool", ok |-> TRUE,
                           before |-> DOMAIN tools, batch |-> <<name>>]
    /\ UNCHANGED <<resources, started>>

\* the loop of registerTools: a tool without a handler throws, the tools
\* before it in the array are already set
RECURSIVE RegisterToolsLoop(_, _, _, _)
RegisterToolsLoop(map, batch, scopes, handlers) ==
    IF batch = <<>> THEN [ok |-> TRUE, tools |-> map]
    ELSE IF Head(batch) \notin handlers THEN [ok |-> FALSE, tools |-> map]
    ELSE RegisterToolsLoop(MapSet(map, Head(batch), scopes), Tail(batch),
                           scopes, handlers)

\* registerTools(tools, handlers): every tool of the batch declares `scopes`
RegisterTools(batch, scopes, handlers) ==
    LET r == IF started THEN [ok |-> FALSE, tools |-> tools]
             ELSE RegisterToolsLoop(tools, batch, scopes, handlers)
    IN  /\ tools' = r.tools
        /\ lastReg' = [op |-> "registerTools", ok |-> r.ok,
                       before |-> DOMAIN tools, batch |-> batch]
        /\ UNCHANGED <<resources, started>>

\* registerToolLive(tool, handler)
RegisterToolLive(name, scopes) ==
    /\ tools' = MapSet(tools, name, scopes)
    /\ lastReg' = [op |-> "registerToolLive", ok |-> TRUE,
                   before |-> DOMAIN tools, batch |-> <<name>>]
    /\ UNCHANGED <<resources, started>>

\* unregisterTool(toolName): the returned flag is `deleted`
UnregisterTool(name) ==
    /\ tools' = MapDelete(tools, name)
    /\ lastReg' = [op |-> "unregisterTool", ok |-> name \in DOMAIN tools,
                   before |-> DOMAIN tools, batch |-> <<name>>]
    /\ UNCHANGED <<resources, started>>

\* the registry after registerResource(resource, handler), and whether the
\* call returned (it throws when the URI is already registered)
RegisterResourceResult(res, uri) ==
    IF uri \in res THEN [ok |-> FALSE, resources |-> res]
    ELSE [ok |-> TRUE, resources |-> res \cup {uri}]

\* registerResource(resource, handler)
RegisterResource(uri) ==
    /\ resources' = RegisterResourceResult(resources, uri).resources
    /\ lastReg' = [op |-> "registerResource",
                   ok |-> RegisterResourceResult(resources, uri).ok,
                   before |-> resources, batch |-> <<uri>>]
    /\ UNCHANGED <<tools, started>>

\* the last loop of registerResources: this.registerResource(resource,
\* handler) for each resource of the array, in order; the first throw ends it
RECURSIVE RegisterResourcesLoop(_, _)
RegisterResourcesLoop(res, batch) ==
    IF batch = <<>> THEN [ok |-> TRUE, resources |-> res]
    ELSE IF ~RegisterResourceResult(res, Head(batch)).ok
         THEN [ok |-> FALSE, resources |-> res]
         ELSE RegisterResourcesLoop(
                  RegisterResourceResult(res, Head(batch)).resources,
                  Tail(batch))

\* registerResources(resources, handlers): handlers is the set of the keys
\* of the handlers map
RegisterResourcesResult(res, batch, handlers) ==
    LET missingHandlers == SelectSeq(batch, LAMBDA u : u \notin handlers)
        duplicateUris == SelectSeq(batch, LAMBDA u : u \in res)
    IN  IF Len(missingHandlers) > 0 THEN [ok |-> FALSE, resources |-> res]
        ELSE IF Len(duplicateUris) > 0 THEN [ok |-> FALSE, resources |-> res]
        ELSE RegisterResourcesLoop(res, batch)

RegisterResources(batch, handlers) ==
    /\ resources' = RegisterResourcesResult(resources, batch, handlers).resources
    /\ lastReg' = [op |-> "registerResources",
                   ok |-> RegisterResourcesResult(resources, batch, handlers).ok,
                   before |-> resources, batch |-> batch]
    /\ UNCHANGED <<tools, started>>

\* start() / startHttp(): from now on registerTool(s) throws
Start ==
    /\ ~started
    /\ started' = TRUE
    /\ lastReg' = NoReg
    /\ UNCHANGED <<tools, resources>>

-----------------------------------------------------------------------------
(* Middleware pipeline: buildPipeline and executeToolCall                  *)
(* (concurrent-server.ts), the runner and the rate-limit middleware        *)
(* (middleware/runner.ts), the auth, scope, validation and backpressure    *)
(* middlewares.  A task is one call of executeToolCall.                    *)

\* What a middleware given to use() does with next():
\*   once   pre-phase; return await next()
\*   short  returns a result of its own, never calls next()
\*   retry  try { return await next() } catch { return await next() }
\*   twice  await next(); return await next()
Behaviours == {"once", "short", "retry", "twice"}

\* What a middleware given to use() does with ctx.authInfo before next():
\*   mutate   if (ctx.authInfo) ctx.authInfo.scopes.push("write")
\*   replace  ctx.authInfo = { ...ctx.authInfo, scopes: ["read", "write"] }
AuthBehaviours == {"mutate", "replace"}

\* the bearer tokens a request may carry (none, one the provider rejects,
\* two it verifies) and the scopes verifyToken returns for them
Tokens == {"none", "bad", "t1", "t2"}
TokenScopes(token) ==
    IF token = "t2" THEN {"read", "write"}
    ELSE IF token = "t1" THEN {"read"} ELSE {}

NoAuthInfo == [set |-> FALSE, scopes |-> {}]
NoRes == [kind |-> "none", what |-> "", scopes |-> <<>>]
OkRes(what) == [kind |-> "ok", what |-> what, scopes |-> <<>>]
ErrRes(what) == [kind |-> "error", what |-> what, scopes |-> <<>>]

\* new AuthError(code, metadataUrl, requiredScopes)
AuthError(code, scopes) == [kind |-> "error", what |-> code, scopes |-> scopes]

\* a task that is not in executeToolCall
IdleCall ==
    [st |-> "idle", toolName |-> 0, http |-> FALSE, token |-> "none",
     index |-> 0, handlerCalled |-> FALSE,
     authInfo |-> NoAuthInfo, frames |-> <<>>, cur |-> "none", res |-> NoRes,
     entered |-> <<>>, nexted |-> {}, acquires |-> 0, releases |-> 0,
     declared |-> <<>>, ran |-> <<>>, known |-> FALSE]

\* History kept in a call: entered, the pipeline positions dispatched (the
\* handler is position Len(middlewares) + 1); nexted, the positions whose
\* middleware called next(); acquires and releases, the acquire() calls of
\* the backpressure middleware that took a slot and its release() calls;
\* declared, the requiredScopes the tool had when the call was made; ran,
\* the requiredScopes the tool had each time the handler was run; known,
\* whether the tool was registered when the call was made.

\* const ctx = { toolName, args, request, sessionId }; runner(ctx):
\* let index = 0; let handlerCalled = false; return next()
NewCall(toolName, http, token) ==
    [IdleCall EXCEPT !.st = "run", !.toolName = toolName, !.http = http,
                     !.token = token, !.cur = "next",
                     !.declared = IF toolName \in DOMAIN tools
                                  THEN tools[toolName] ELSE <<>>,
                     !.known = toolName \in DOMAIN tools]

PipeConfigInit ==
    /\ rateLimit \in {"none", "reject", "wait"}
    /\ authProvider \in BOOLEAN
    /\ schemaValidator \in BOOLEAN
    /\ customMiddlewares = <<>>
    /\ middlewares = <<>>
    /\ toolScopes = <<>>
    /\ calls = [c \in Tasks |-> IdleCall]
    /\ liveOps = 0

\* the pipeline of a specification that does not use it
PipeIdle ==
    /\ rateLimit = "none"
    /\ authProvider = FALSE
    /\ schemaValidator = FALSE
    /\ customMiddlewares = <<>>
    /\ middlewares = <<>>
    /\ toolScopes = <<>>
    /\ calls = [c \in Tasks |-> IdleCall]
    /\ liveOps = 0

\* use(middleware)
Use(b) ==
    /\ ~started
    /\ customMiddlewares' = Append(customMiddlewares, b)
    /\ UNCHANGED <<rateLimit, authProvider, schemaValidator, middlewares,
                   toolScopes, calls, liveOps>>

\* buildPipeline: the map of the tools that have requiredScopes?.length
ToolScopesOf(tls) ==
    [n \in {x \in DOMAIN tls : Len(tls[x]) > 0} |-> tls[n]]

Stage(name, b) == [stage |-> name, b |-> b]

\* buildPipeline: the list given to createMiddlewareRunner
BuildPipeline(rl, auth, custom, tls, validator) ==
    (IF rl # "none" THEN <<Stage("rate-limit", rl)>> ELSE <<>>)
    \o (IF auth THEN <<Stage("auth", "")>> ELSE <<>>)
    \o [i \in 1..Len(custom) |-> Stage("user", custom[i])]
    \o (IF DOMAIN ToolScopesOf(tls) # {} THEN <<Stage("scope", "")>> ELSE <<>>)
    \o (IF validator THEN <<Stage("validation", "")>> ELSE <<>>)
    \o <<Stage("backpressure", "")>>

\* start() / startHttp(): this.buildPipeline(); this.started = true
StartServer ==
    /\ Start
    /\ middlewares' = BuildPipeline(rateLimit, authProvider, customMiddlewares,
                                    tools, schemaValidator)
    /\ toolScopes' = ToolScopesOf(tools)
    /\ UNCHANGED <<rateLimit, authProvider, schemaValidator, customMiddlewares,
                   calls, liveOps>>

\* executeToolCall(toolName, args, request, sessionId) up to runner(ctx)
ExecuteToolCall(c, toolName, http, token) ==
    /\ started
    /\ calls[c].st # "run"
    /\ calls' = [calls EXCEPT ![c] = NewCall(toolName, http, token)]
    /\ UNCHANGED <<rateLimit, authProvider, schemaValidator, customMiddlewares,
                   middlewares, toolScopes, liveOps>>

\* a middleware or the handler throws e
Throw(r, e) == [r EXCEPT !.cur = "ret", !.res = e]

\* the middleware at position pos calls next()
CallNext(r, pos) == [r EXCEPT !.cur = "next", !.nexted = @ \cup {pos}]

SetCall(c, r) == calls' = [calls EXCEPT ![c] = r]

\* createRateLimitMiddleware: key = "default"; reject: checkLimit or throw;
\* wait: await limiter.waitForSlot(key); then next()
RateLimitMiddleware(c, r, pos, mode) ==
    LET ok == CheckLimitResult(requestCounts, "tool", 1)
    IN  IF mode = "reject"
        THEN /\ CheckLimit("tool", 1)
             /\ SetCall(c, IF ok THEN CallNext(r, pos)
                           ELSE Throw(r, ErrRes("rate_limit")))
             /\ UNCHANGED <<maxRequests, windowMs, now, rlpc, rlwait, retries,
                            wakeAt>>
        ELSE /\ WaitForSlotStep(c, "tool", 1, 0)
             /\ SetCall(c, IF ok THEN CallNext(r, pos)
                           ELSE [r EXCEPT !.cur = "rl_wait"])

\* createAuthMiddleware up to await provider.verifyToken(token)
AuthMiddleware(c, r, pos) ==
    SetCall(c, IF ~r.http THEN CallNext(r, pos)
               ELSE IF r.token = "none"
                    THEN Throw(r, AuthError("missing_token", <<>>))
                    ELSE [r EXCEPT !.cur = "auth_verify"])

\* createAuthMiddleware after verifyToken: null throws, else ctx.authInfo is
\* set and next() is called
AuthVerified(c, r, pos) ==
    SetCall(c, IF r.token = "bad"
               THEN Throw(r, AuthError("invalid_token", <<>>))
               ELSE CallNext([r EXCEPT !.authInfo =
                                [set |-> TRUE, scopes |-> TokenScopes(r.token)]],
                             pos))

\* requiredScopes.filter((s) => !authInfo.scopes.includes(s))
MissingScopes(requiredScopes, scopes) ==
    SelectSeq(requiredScopes, LAMBDA s : s \notin scopes)

\* requiredScopes.every((s) => authInfo.scopes.includes(s))
HasAll(requiredScopes, scopes) ==
    \A i \in 1..Len(requiredScopes) : requiredScopes[i] \in scopes

\* createScopeMiddleware
ScopeMiddleware(c, r, pos) ==
    LET requiredScopes == IF r.toolName \in DOMAIN toolScopes
                          THEN toolScopes[r.toolName] ELSE <<>>
    IN  SetCall(c,
          IF Len(requiredScopes) = 0 THEN CallNext(r, pos)
          ELSE IF ~r.authInfo.set
               THEN IF ~r.http THEN CallNext(r, pos)
                    ELSE Throw(r, ErrRes("scope_no_authinfo"))
          ELSE IF ~HasAll(requiredScopes, r.authInfo.scopes)
               THEN Throw(r, AuthError("insufficient_scope",
                             MissingScopes(requiredScopes, r.authInfo.scopes)))
          ELSE CallNext(r, pos))

\* createValidationMiddleware: validator.validateOrThrow(...); return next();
\* whether the arguments fit the schema is chosen here
ValidationMiddleware(c, r, pos) ==
    \E argsOk \in BOOLEAN :
        SetCall(c, IF argsOk THEN CallNext(r, pos)
                   ELSE Throw(r, ErrRes("validation")))

\* ctx as a middleware given to use() leaves it before it calls next().
\* ctx is a plain object, its authInfo property is writable; the object the
\* auth middleware stored there is frozen and so is its scopes array.
UserContext(r, b) ==
    IF b = "replace"
    THEN [r EXCEPT !.authInfo = [set |-> TRUE, scopes |-> {"read", "write"}]]
    ELSE r

\* a middleware given to use(), up to its first await; a write to a frozen
\* object throws a TypeError (modules are strict code)
UserMiddleware(c, r, pos, b) ==
    SetCall(c, IF b = "short" THEN Throw(r, OkRes("short"))
               ELSE IF b = "mutate" /\ r.authInfo.set
                    THEN Throw(r, ErrRes("type_error"))
               ELSE CallNext([UserContext(r, b) EXCEPT !.frames =
                                Append(@, [stage |-> "user", b |-> b,
                                           n |-> 1, pos |-> pos])], pos))

\* createBackpressureMiddleware up to await queue.acquire()
BackpressureMiddleware(c, r, pos) ==
    /\ Acquire(c)
    /\ SetCall(c, [r EXCEPT !.cur = "bp_acquire"])

\* createBackpressureMiddleware after await queue.acquire(): the acquire
\* threw (reject strategy), or the slot is held and next() is called in try
BackpressureAcquired(c, r, pos) ==
    SetCall(c, IF qpc[c] = "holding"
               THEN CallNext([r EXCEPT !.acquires = @ + 1,
                                       !.frames = Append(@,
                                          [stage |-> "backpressure", b |-> "",
                                           n |-> 1, pos |-> pos])], pos)
               ELSE Throw(r, ErrRes("capacity")))

\* the handler given to createMiddlewareRunner by buildPipeline:
\* this.tools.get(ctx.toolName), throw if missing, else tool.handler(args)
ToolHandler(c, r) ==
    SetCall(c, IF r.toolName \notin DOMAIN tools
               THEN Throw(r, ErrRes("unknown_tool"))
               ELSE [r EXCEPT !.cur = "handler",
                              !.ran = Append(@, tools[r.toolName])])

\* mutant of AlreadyCompleted: the runner has no double-call guard
AlreadyCompletedNever(r) == FALSE

\* the double-call guard of the next closure: if (handlerCalled)
AlreadyCompleted(r) == r.handlerCalled

\* the next closure of createMiddlewareRunner
RunnerNext(c) ==
    LET r == calls[c]
        pos == r.index + 1
        r1 == [r EXCEPT !.index = pos, !.entered = Append(@, pos)]
    IN  IF r.index < Len(middlewares)
        THEN LET mw == middlewares[pos]
             IN  CASE mw.stage = "rate-limit" ->
                        RateLimitMiddleware(c, r1, pos, mw.b) /\ UNCHANGED qvars
                   [] mw.stage = "auth" ->
                        AuthMiddleware(c, r1, pos) /\ UNCHANGED <<qvars, rlvars>>
                   [] mw.stage = "user" ->
                        UserMiddleware(c, r1, pos, mw.b)
                        /\ UNCHANGED <<qvars, rlvars>>
                   [] mw.stage = "scope" ->
                        ScopeMiddleware(c, r1, pos) /\ UNCHANGED <<qvars, rlvars>>
                   [] mw.stage = "validation" ->
                        ValidationMiddleware(c, r1, pos)
                        /\ UNCHANGED <<qvars, rlvars>>
                   [] mw.stage = "backpressure" ->
                        BackpressureMiddleware(c, r1, pos) /\ UNCHANGED rlvars
        ELSE /\ IF AlreadyCompleted(r)
                THEN SetCall(c, Throw(r, ErrRes("next_after_completion")))
                ELSE ToolHandler(c, [r EXCEPT !.handlerCalled = TRUE,
                                              !.entered = Append(@, pos)])
             /\ UNCHANGED <<qvars, rlvars>>

\* mutant of BackpressureExit: the release() after the try block, not in a
\* finally
BackpressureExitNoFinally(c, pass) ==
    IF pass.res.kind = "ok"
    THEN /\ Release(c)
         /\ UNCHANGED strayReleases
         /\ SetCall(c, [pass EXCEPT !.releases = @ + 1])
    ELSE SetCall(c, pass) /\ UNCHANGED qvars

\* createBackpressureMiddleware: finally { queue.release() }, then the
\* result or the error of next() goes on
BackpressureExit(c, pass) ==
    /\ Release(c)
    /\ UNCHANGED strayReleases
    /\ SetCall(c, [pass EXCEPT !.releases = @ + 1])

\* mutant of ResumedFrame: the outermost suspended middleware resumes first
ResumedFrameOutermost(fs) == 1

\* the middleware that resumes when next() settles: the one whose await
\* next() was entered last and is still pending
ResumedFrame(fs) == Len(fs)

\* a value or an error reaches the innermost suspended middleware, or, when
\* there is none, the caller of the runner
Return(c) ==
    LET r == calls[c]
        at == ResumedFrame(r.frames)
        f == r.frames[at]
        rest == [j \in 1..(Len(r.frames) - 1) |->
                    IF j < at THEN r.frames[j] ELSE r.frames[j + 1]]
        again == [r EXCEPT !.frames = Append(rest, [f EXCEPT !.n = 2]),
                           !.cur = "next", !.res = NoRes]
        pass == [r EXCEPT !.frames = rest]
    IN  IF r.frames = <<>>
        THEN SetCall(c, [r EXCEPT !.st = "done", !.cur = "done"])
             /\ UNCHANGED qvars
        ELSE IF f.stage = "backpressure"
             THEN BackpressureExit(c, pass)
        ELSE /\ SetCall(c,
                  IF f.b = "retry" /\ f.n = 1 /\ r.res.kind = "error" THEN again
                  ELSE IF f.b = "twice" /\ f.n = 1 /\ r.res.kind = "ok" THEN again
                  ELSE pass)
             /\ UNCHANGED qvars

-----------------------------------------------------------------------------
(* The steps of one executeToolCall, each from a resumption to the next    *)
(* suspension.  They leave the registry and the pipeline's build alone.    *)

\* next() is called: the runner dispatches the next middleware or the handler
CallNextStep(c) ==
    /\ calls[c].st = "run" /\ calls[c].cur = "next"
    /\ RunnerNext(c)
    /\ UNCHANGED <<regvars, pipecfg, liveOps, httpvars, extvars>>

\* the backoff timer of waitForSlot fires in the rate-limit middleware
CallRateLimitRetry(c) ==
    /\ calls[c].st = "run" /\ calls[c].cur = "rl_wait"
    /\ now >= wakeAt[c]
    /\ WaitForSlotStep(c, "tool", 1, retries[c])
    /\ SetCall(c, IF CheckLimitResult(requestCounts, "tool", 1)
                  THEN CallNext(calls[c], calls[c].index) ELSE calls[c])
    /\ UNCHANGED <<qvars, regvars, pipecfg, liveOps, httpvars, extvars>>

\* provider.verifyToken(token) settles
CallAuthVerified(c) ==
    /\ calls[c].st = "run" /\ calls[c].cur = "auth_verify"
    /\ AuthVerified(c, calls[c], calls[c].index)
    /\ UNCHANGED <<qvars, rlvars, regvars, pipecfg, liveOps, httpvars, extvars>>

\* queue strategy: the acquire() of the backpressure middleware is resumed
CallAcquireResume(c) ==
    /\ calls[c].st = "run" /\ calls[c].cur = "bp_acquire"
    /\ qpc[c] = "woken"
    /\ AcquireResume(c)
    /\ UNCHANGED <<rlvars, regvars, pipevars, httpvars, extvars>>

\* sleep strategy: the timer of the acquire() fires
CallAcquireSleepWake(c) ==
    /\ calls[c].st = "run" /\ calls[c].cur = "bp_acquire"
    /\ qpc[c] = "sleeping"
    /\ AcquireSleepWake(c)
    /\ UNCHANGED <<rlvars, regvars, pipevars, httpvars, extvars>>

\* await queue.acquire() is over: it returned or threw
CallAcquired(c) ==
    /\ calls[c].st = "run" /\ calls[c].cur = "bp_acquire"
    /\ qpc[c] \in {"holding", "idle"}
    /\ BackpressureAcquired(c, calls[c], calls[c].index)
    /\ UNCHANGED <<qvars, rlvars, regvars, pipecfg, liveOps, httpvars, extvars>>

\* the tool's handler returns or throws
CallHandlerDone(c, ok) ==
    /\ calls[c].st = "run" /\ calls[c].cur = "handler"
    /\ SetCall(c, Throw(calls[c], IF ok THEN OkRes("tool")
                                  ELSE ErrRes("handler_error")))
    /\ UNCHANGED <<qvars, rlvars, regvars, pipecfg, liveOps, httpvars, extvars>>

\* a result or an error travels one frame up
CallReturn(c) ==
    /\ calls[c].st = "run" /\ calls[c].cur = "ret"
    /\ Return(c)
    /\ UNCHANGED <<rlvars, regvars, pipecfg, liveOps, httpvars, extvars>>

\* the steps every call can take
CallStep(c) ==
    \/ CallNextStep(c)
    \/ CallAcquired(c)
    \/ \E ok \in BOOLEAN : CallHandlerDone(c, ok)
    \/ CallReturn(c)

\* the steps of a call that found the queue at capacity
CallQueueStep(c) ==
    \/ CallAcquireResume(c)
    \/ CallAcquireSleepWake(c)

-----------------------------------------------------------------------------
(* HTTP transport (concurrent-server.ts, startHttp): sessions, the POST    *)
(* and GET handlers of /mcp, the session cleanup timer.  A task is one     *)
(* HTTP request.  Time is counted in ticks and the constants of the class   *)
(* are scaled down: SESSION_TTL_MS (30 min), SESSION_GRACE_PERIOD_MS        *)
(* (60 s), SESSION_CLEANUP_INTERVAL_MS (5 min), MAX_SESSIONS (10_000).      *)
(* The scale keeps what the handlers depend on: a session outlives its TTL  *)
(* and grace before the timer's next run removes it, and the session limit  *)
(* can be reached.                                                          *)

SESSION_TTL_MS == 1
SESSION_GRACE_PERIOD_MS == 1
SESSION_CLEANUP_INTERVAL_MS == 2
MAX_SESSIONS == 1

Methods == {"initialize", "tools/call", "tools/list", "resources/list",
            "resources/read", "other", "GET"}

\* the session ids a request may carry: none (0), one generateSessionId()
\* has returned, or one it never returned
SessionIds == 0..(MaxSessionIds + 1)

NoResp == [status |-> 0, code |-> 0, served |-> "none"]

IdleReq ==
    [st |-> "idle", method |-> "", sid |-> 0, token |-> "none",
     resp |-> NoResp, sessionCheck |-> "none", authChecked |-> FALSE,
     sizeBefore |-> 0, cleaned |-> 0, created |-> 0]

\* History kept in a request: sessionCheck, what the session lookup found
\* ("unknown": not in the map; "stale": in the map, idle for longer than
\* TTL + grace; "fresh"); authChecked, whether the token was looked at;
\* sizeBefore, cleaned, created: for an initialize that reached the session
\* limit test, sessions.size before it, the number of sessions its cleanup
\* removed, the id it created.

NewReq(method, sid, token) ==
    [IdleReq EXCEPT !.method = method, !.sid = sid, !.token = token]

\* the handler returns a response
Answer(r, status, code, served) ==
    [r EXCEPT !.st = "answered",
              !.resp = [status |-> status, code |-> code, served |-> served]]

HttpInit ==
    /\ httpRateLimit \in {"none", "reject", "wait"}
    /\ sessions = <<>>
    /\ sessionSeq = 0
    /\ sseClients = <<>>
    /\ nextCleanupAt = 0
    /\ reqs = [c \in Tasks |-> IdleReq]

\* the transport of a specification that does not use it
HttpIdle ==
    /\ httpRateLimit = "none"
    /\ sessions = <<>>
    /\ sessionSeq = 0
    /\ sseClients = <<>>
    /\ nextCleanupAt = 0
    /\ reqs = [c \in Tasks |-> IdleReq]

\* startHttp(): buildPipeline, serve, started = true, setInterval(cleanup)
StartHttp ==
    /\ StartServer
    /\ nextCleanupAt' = now + SESSION_CLEANUP_INTERVAL_MS
    /\ UNCHANGED <<httpRateLimit, sessions, sessionSeq, sseClients, reqs>>

\* mutant of Expired: the grace period is left out
ExpiredNoGrace(lastActivity) == now - lastActivity > SESSION_TTL_MS

\* cleanupSessions: now - session.lastActivity > ttlWithGrace
Expired(lastActivity) ==
    now - lastActivity > SESSION_TTL_MS + SESSION_GRACE_PERIOD_MS

\* mutant of CleanupSessionsResult: no session is deleted
CleanupSessionsNone(sess) == sess

\* the sessions cleanupSessions() keeps
CleanupSessionsResult(sess) ==
    [id \in {x \in DOMAIN sess : ~Expired(sess[x])} |-> sess[id]]

\* the SSE clients cleanupSessions() keeps: those of the sessions it removes
\* are closed and deleted
CleanupSseResult(sess, sse) ==
    [k \in {x \in DOMAIN sse : ~(x \in DOMAIN sess /\ Expired(sess[x]))}
        |-> sse[k]]

\* the setInterval callback: this.cleanupSessions()
CleanupTimer ==
    /\ started
    /\ now >= nextCleanupAt
    /\ sessions' = CleanupSessionsResult(sessions)
    /\ sseClients' = CleanupSseResult(sessions, sseClients)
    /\ nextCleanupAt' = nextCleanupAt + SESSION_CLEANUP_INTERVAL_MS
    /\ UNCHANGED <<httpRateLimit, sessionSeq, reqs>>

\* checkHttpRateLimit: no limiter, or checkLimit(ip) of the HTTP limiter
HttpRateLimitAllowed ==
    httpRateLimit = "none" \/ CheckLimitResult(requestCounts, "http", 1)

\* A request arrives at handleMcpPost or handleMcpGet, which run up to the
\* end of await checkHttpRateLimit(...): 429 or go on
HttpArrive(c, method, sid, token) ==
    /\ started
    /\ reqs[c].st = "idle"
    /\ httpRateLimit # "wait"
    /\ IF httpRateLimit = "none"
       THEN UNCHANGED <<requestCounts, lastCheck, granted>>
       ELSE CheckLimit("http", 1)
    /\ reqs' = [reqs EXCEPT ![c] =
          IF ~HttpRateLimitAllowed
          THEN Answer(NewReq(method, sid, token), 429,
                      IF method = "GET" THEN 0 ELSE -32000, "none")
          ELSE [NewReq(method, sid, token) EXCEPT
                   !.st = IF method = "GET" THEN "accept" ELSE "body"]]
    /\ UNCHANGED <<maxRequests, windowMs, now, rlpc, rlwait, retries, wakeAt>>
    /\ UNCHANGED <<extvars, qvars, regvars, pipevars>>
    /\ UNCHANGED <<httpRateLimit, sessions, sessionSeq, sseClients,
                   nextCleanupAt>>

\* mutant of WaitAdmitted: the request goes on after its first sleep
WaitAdmittedAfterSleep(r) == r > 0 \/ CheckLimitResult(requestCounts, "http", 1)

\* waitForSlot: the loop ends when this.checkLimit(key) returns true
WaitAdmitted(r) == CheckLimitResult(requestCounts, "http", 1)

\* checkHttpRateLimit with onLimitExceeded "wait", one pass of waitForSlot's
\* loop made by the request r of task c after retries sleeps: the request
\* goes on to its handler, or sleeps.  waitForSlot does not throw, so the
\* catch that answers 429 is not entered.
HttpWaitStep(c, r, n) ==
    /\ WaitForSlotStep(c, "http", 1, n)
    /\ reqs' = [reqs EXCEPT ![c] =
          IF WaitAdmitted(n)
          THEN [r EXCEPT !.st = IF r.method = "GET" THEN "accept" ELSE "body"]
          ELSE [r EXCEPT !.st = "ratewait"]]
    /\ UNCHANGED <<extvars, qvars, regvars, pipevars>>
    /\ UNCHANGED <<httpRateLimit, sessions, sessionSeq, sseClients,
                   nextCleanupAt>>

\* a request arrives at a server whose IP rate limit waits
HttpArriveWait(c, method, sid, token) ==
    /\ started
    /\ reqs[c].st = "idle"
    /\ httpRateLimit = "wait"
    /\ HttpWaitStep(c, NewReq(method, sid, token), 0)

\* the sleep of waitForSlot is over: the loop tests checkLimit again
HttpWaitRetry(c) ==
    /\ reqs[c].st = "ratewait"
    /\ now >= wakeAt[c]
    /\ HttpWaitStep(c, reqs[c], retries[c])

\* mutant of SessionLimitReached: the comparison off by one
SessionLimitReachedOffByOne(size) == size > MAX_SESSIONS

\* this.sessions.size >= ConcurrentMCPServer.MAX_SESSIONS
SessionLimitReached(size) == size >= MAX_SESSIONS

Size(m) == Cardinality(DOMAIN m)

\* mutant of InitializeAllowed: initialize is not rate-limited per IP
InitializeAllowedAlways == TRUE

\* this.initRateLimiter.checkLimit(clientIp), the value it returns
InitializeAllowed == CheckLimitResult(requestCounts, "init", 1)

\* handleMcpPost, method === "initialize": the initialize rate limit, the
\* session limit with its cleanup, the new session
Initialize(c, r) ==
    LET allowed == InitializeAllowed
        full == SessionLimitReached(Size(sessions))
        kept == IF full THEN CleanupSessionsResult(sessions) ELSE sessions
        sse == IF full THEN CleanupSseResult(sessions, sseClients)
               ELSE sseClients
        r1 == [r EXCEPT !.sizeBefore = Size(sessions),
                        !.cleaned = Size(sessions) - Size(kept)]
        id == sessionSeq + 1
    IN  /\ CheckLimit("init", 1)
        /\ IF ~allowed
           THEN /\ reqs' = [reqs EXCEPT ![c] = Answer(r, 429, -32000, "none")]
                /\ UNCHANGED <<sessions, sessionSeq, sseClients>>
           ELSE IF full /\ SessionLimitReached(Size(kept))
           THEN /\ reqs' = [reqs EXCEPT ![c] = Answer(r1, 503, -32000, "none")]
                /\ sessions' = kept
                /\ sseClients' = sse
                /\ UNCHANGED sessionSeq
           ELSE /\ sessionSeq < MaxSessionIds
                /\ reqs' = [reqs EXCEPT ![c] =
                              Answer([r1 EXCEPT !.created = id], 200, 0,
                                     "session")]
                /\ sessions' = MapSet(kept, id, now)
                /\ sseClients' = sse
                /\ sessionSeq' = id
        /\ UNCHANGED <<maxRequests, windowMs, now, rlpc, rlwait, retries, wakeAt>>
        /\ UNCHANGED <<extvars, qvars, regvars, pipevars>>
        /\ UNCHANGED <<httpRateLimit, nextCleanupAt>>

\* what the session lookup of a request finds
SessionCheck(sid) ==
    IF sid = 0 THEN "none"
    ELSE IF sid \notin DOMAIN sessions THEN "unknown"
    ELSE IF Expired(sessions[sid]) THEN "stale" ELSE "fresh"

\* mutant of SessionFound: every session id is accepted
SessionFoundAlways(sid) == TRUE

\* this.sessions.get(reqSessionId) is not undefined
SessionFound(sid) == sid \in DOMAIN sessions

\* handleMcpPost after verifyHttpAuth: tools/list, resources/list,
\* resources/read up to the resource's handler, method not found
MethodDispatch(r, uri) ==
    IF r.method = "tools/list" THEN Answer(r, 200, 0, "tools")
    ELSE IF r.method = "resources/list" THEN Answer(r, 200, 0, "resources")
    ELSE IF r.method = "resources/read"
         THEN IF uri \notin resources THEN Answer(r, 200, -32602, "none")
              ELSE [r EXCEPT !.st = "reading"]
    ELSE Answer(r, 200, -32601, "none")

\* mutant of VerifyHttpAuth: the token is not looked at
VerifyHttpAuthSkipped(r, go) == go

\* verifyHttpAuth up to await verifyToken; go is what the request does when
\* no auth provider is configured
VerifyHttpAuth(r, go) ==
    IF ~authProvider THEN go
    ELSE IF r.token = "none"
         THEN Answer([r EXCEPT !.authChecked = TRUE], 401, -32001, "none")
         ELSE [r EXCEPT !.authChecked = TRUE, !.st = "verify"]

\* handleMcpPost from the end of the body's read: parse, then initialize, or
\* the session lookup and then tools/call (executeToolCall) or verifyHttpAuth
\* and the other methods
PostBody(c, outcome, toolName, uri) ==
    LET r == reqs[c]
        r1 == [r EXCEPT !.sessionCheck = SessionCheck(r.sid)]
    IN  /\ reqs[c].st = "body"
        /\ IF outcome = "too_large" \/ outcome = "bad_json"
           THEN /\ reqs' = [reqs EXCEPT ![c] =
                     IF outcome = "too_large"
                     THEN Answer(r, 413, -32000, "none")
                     ELSE Answer(r, 200, -32700, "none")]
                /\ UNCHANGED <<sessions, sessionSeq, sseClients, httpRateLimit,
                               nextCleanupAt>>
                /\ UNCHANGED <<extvars, qvars, rlvars, regvars, pipevars>>
           ELSE IF r.method = "initialize" THEN Initialize(c, r)
           ELSE IF r.sid # 0 /\ ~SessionFound(r.sid)
           THEN /\ reqs' = [reqs EXCEPT ![c] = Answer(r1, 404, -32001, "none")]
                /\ UNCHANGED <<sessions, sessionSeq, sseClients, httpRateLimit,
                               nextCleanupAt>>
                /\ UNCHANGED <<extvars, qvars, rlvars, regvars, pipevars>>
           ELSE /\ sessions' = IF r.sid \in DOMAIN sessions
                               THEN [sessions EXCEPT ![r.sid] = now]
                               ELSE sessions
                /\ IF r.method = "tools/call"
                   THEN /\ ExecuteToolCall(c, toolName, TRUE, r.token)
                        /\ reqs' = [reqs EXCEPT ![c] =
                                      [r1 EXCEPT !.st = "pipeline"]]
                   ELSE /\ reqs' = [reqs EXCEPT ![c] =
                                      VerifyHttpAuth(r1, MethodDispatch(r1, uri))]
                        /\ UNCHANGED pipevars
                /\ UNCHANGED <<sessionSeq, sseClients, httpRateLimit,
                               nextCleanupAt>>
                /\ UNCHANGED <<extvars, qvars, rlvars, regvars>>

\* handleMcpPost after executeToolCall: the result, or the catch that maps
\* the error to a response
ToolResponse(r, res) ==
    IF res.kind = "ok" THEN Answer(r, 200, 0, "tool")
    ELSE IF res.what = "missing_token" \/ res.what = "invalid_token"
         THEN Answer(r, 401, -32001, "none")
    ELSE IF res.what = "insufficient_scope" THEN Answer(r, 403, -32001, "none")
    ELSE IF res.what = "unknown_tool" THEN Answer(r, 200, -32602, "none")
    ELSE IF res.what = "rate_limit" THEN Answer(r, 200, -32000, "none")
    ELSE Answer(r, 200, -32603, "none")

PostToolDone(c) ==
    /\ reqs[c].st = "pipeline"
    /\ calls[c].st = "done"
    /\ reqs' = [reqs EXCEPT ![c] = ToolResponse(reqs[c], calls[c].res)]
    /\ UNCHANGED <<httpRateLimit, sessions, sessionSeq, sseClients,
                   nextCleanupAt>>
    /\ UNCHANGED <<extvars, qvars, rlvars, regvars, pipevars>>

\* handleMcpGet from the session check: 404, or the stream is opened and
\* its client is added to sseClients under the session id or "anonymous" (0)
SseOpen(c, r) ==
    IF r.sid # 0 /\ r.sid \notin DOMAIN sessions
    THEN /\ reqs' = [reqs EXCEPT ![c] =
                       Answer([r EXCEPT !.sessionCheck = "unknown"], 404, 0,
                              "none")]
         /\ UNCHANGED sseClients
    ELSE /\ reqs' = [reqs EXCEPT ![c] =
                       [r EXCEPT !.st = "streaming",
                                 !.sessionCheck = SessionCheck(r.sid),
                                 !.resp = [status |-> 200, code |-> 0,
                                           served |-> "stream"]]]
         /\ sseClients' = MapSet(sseClients, r.sid,
                                 IF r.sid \in DOMAIN sseClients
                                 THEN sseClients[r.sid] \cup {c} ELSE {c})

\* handleMcpGet after checkHttpRateLimit: the Accept header, verifyHttpAuth
GetAccept(c, acceptOk) ==
    LET r == reqs[c]
    IN  /\ r.st = "accept"
        /\ IF ~acceptOk
           THEN /\ reqs' = [reqs EXCEPT ![c] = Answer(r, 405, 0, "none")]
                /\ UNCHANGED sseClients
           ELSE IF ~authProvider THEN SseOpen(c, r)
           ELSE /\ reqs' = [reqs EXCEPT ![c] = VerifyHttpAuth(r, r)]
                /\ UNCHANGED sseClients
        /\ UNCHANGED <<httpRateLimit, sessions, sessionSeq, nextCleanupAt>>
        /\ UNCHANGED <<extvars, qvars, rlvars, regvars, pipevars>>

\* verifyHttpAuth after await verifyToken: 401, or the request goes on
AuthVerifiedHttp(c, uri) ==
    LET r == reqs[c]
    IN  /\ r.st = "verify"
        /\ IF r.token = "bad"
           THEN /\ reqs' = [reqs EXCEPT ![c] = Answer(r, 401, -32001, "none")]
                /\ UNCHANGED sseClients
           ELSE IF r.method = "GET" THEN SseOpen(c, r)
           ELSE /\ reqs' = [reqs EXCEPT ![c] = MethodDispatch(r, uri)]
                /\ UNCHANGED sseClients
        /\ UNCHANGED <<httpRateLimit, sessions, sessionSeq, nextCleanupAt>>
        /\ UNCHANGED <<extvars, qvars, rlvars, regvars, pipevars>>

\* resources/read: the resource's handler returns or throws
ReadDone(c, ok) ==
    /\ reqs[c].st = "reading"
    /\ reqs' = [reqs EXCEPT ![c] =
                  IF ok THEN Answer(reqs[c], 200, 0, "content")
                  ELSE Answer(reqs[c], 200, -32603, "none")]
    /\ UNCHANGED <<httpRateLimit, sessions, sessionSeq, sseClients,
                   nextCleanupAt>>
    /\ UNCHANGED <<extvars, qvars, rlvars, regvars, pipevars>>

\* the stream's cancel(): the client leaves sseClients if it is still there
SseCancel(c) ==
    LET key == reqs[c].sid
        left == IF key \in DOMAIN sseClients
                THEN sseClients[key] \ {c} ELSE {}
    IN  /\ reqs[c].st = "streaming"
        /\ reqs' = [reqs EXCEPT ![c] = [@ EXCEPT !.st = "answered"]]
        /\ sseClients' = IF key \notin DOMAIN sseClients THEN sseClients
                         ELSE IF left = {} THEN MapDelete(sseClients, key)
                         ELSE [sseClients EXCEPT ![key] = left]
        /\ UNCHANGED <<httpRateLimit, sessions, sessionSeq, nextCleanupAt>>
        /\ UNCHANGED <<extvars, qvars, rlvars, regvars, pipevars>>

-----------------------------------------------------------------------------
(* MessageSigner (message-signer.ts): HMAC signing and verification of the *)
(* messages of one channel, with a sequence number against replays.  The   *)
(* HMAC of a payload under a key is modelled as the pair of both: two HMACs *)
(* are equal exactly when key and payload are.                             *)

NSecrets == 2   \* secrets: 1 is the channel's, the others are foreign
NBodies == 2    \* message contents
MaxSeq == 2     \* largest sequence number
MaxSign == 1    \* sign() calls

Secrets == 1..NSecrets
Bodies == 1..NBodies
Seqs == 0..MaxSeq

\* the secret the signer was constructed with
SecretHex == 1

\* buildHmacPayload(message, seq): `${seq}:${id}:${method}:${body}`
BuildHmacPayload(body, seq) == <<seq, body>>

\* crypto.subtle.sign("HMAC", key, payload), as hex
HmacSign(key, payload) == [kind |-> "hex", key |-> key, payload |-> payload]

\* an _hmac that is no signature: a string that is not hex, or undefined
NoHmac(kind) == [kind |-> kind, key |-> 0, payload |-> <<0, 0>>]

\* crypto.subtle.verify("HMAC", key, signature, payload)
HmacVerify(key, sig, payload) == sig = HmacSign(key, payload)

\* The messages given to verify(): _seq is a number, a value that is not a
\* number, or undefined; _hmac is a signature (made with some secret for
\* some content and number), a string that is not hex, or undefined.
SeqTypes == {"number", "string", "undefined"}
HmacFields ==
    {HmacSign(k, BuildHmacPayload(b, s)) : k \in Secrets, b \in Bodies, s \in Seqs}
        \cup {NoHmac("nothex"), NoHmac("undefined")}
Messages ==
    {m \in [body : Bodies, seqType : SeqTypes, seq : Seqs, hmac : HmacFields] :
        m.seqType # "number" => m.seq = 0}

NoMessage ==
    [body |-> 0, seqType |-> "undefined", seq |-> 0, hmac |-> NoHmac("undefined")]
NoVerifyResult == [valid |-> FALSE, error |-> "none"]

IdleVerif ==
    [st |-> "idle", msg |-> NoMessage, seen |-> -1, res |-> NoVerifyResult]

SignerInit ==
    /\ cryptoKey = FALSE
    /\ sendSeq = 0
    /\ lastRecvSeq = -1
    /\ outbox = NoMessage
    /\ verifs = [c \in Tasks |-> IdleVerif]

\* the signer of a specification that does not use it
SignerIdle == SignerInit


\* init()
InitKey ==
    /\ cryptoKey' = TRUE
    /\ UNCHANGED <<sendSeq, lastRecvSeq, outbox, verifs>>

\* sign(message)
Sign(body) ==
    /\ cryptoKey
    /\ sendSeq' = sendSeq + 1
    /\ outbox' = [body |-> body, seqType |-> "number", seq |-> sendSeq,
                  hmac |-> HmacSign(SecretHex, BuildHmacPayload(body, sendSeq))]
    /\ UNCHANGED <<cryptoKey, lastRecvSeq, verifs>>

\* mutant of IsReplay: the comparison off by one
IsReplayOffByOne(seqType, seq, last) == seqType # "number" \/ seq < last

\* typeof _seq !== "number" || _seq <= this.lastRecvSeq
IsReplay(seqType, seq, last) == seqType # "number" \/ seq <= last

\* verify(message) up to await crypto.subtle.verify: the result it returns
\* at once (an error of "none" is no result: the call goes on)
VerifyEarlyResult(msg) ==
    IF ~cryptoKey THEN [valid |-> FALSE, error |-> "not_initialized"]
    ELSE IF msg.hmac.kind = "undefined" \/ msg.seqType = "undefined"
         THEN [valid |-> FALSE, error |-> "missing_field"]
    ELSE IF IsReplay(msg.seqType, msg.seq, lastRecvSeq)
         THEN [valid |-> FALSE, error |-> "replay"]
    ELSE IF msg.hmac.kind = "nothex"
         THEN [valid |-> FALSE, error |-> "invalid_hex"]
    ELSE NoVerifyResult

Verify(c, msg) ==
    LET early == VerifyEarlyResult(msg)
    IN  /\ verifs[c].st = "idle"
        /\ verifs' = [verifs EXCEPT ![c] =
              [st |-> IF early.error = "none" THEN "verifying" ELSE "done",
               msg |-> msg, seen |-> lastRecvSeq, res |-> early]]
        /\ UNCHANGED <<cryptoKey, sendSeq, lastRecvSeq, outbox>>

\* verify(message) after await crypto.subtle.verify
VerifyDone(c) ==
    LET msg == verifs[c].msg
        isValid == HmacVerify(SecretHex, msg.hmac,
                              BuildHmacPayload(msg.body, msg.seq))
    IN  /\ verifs[c].st = "verifying"
        /\ IF ~isValid
           THEN /\ verifs' = [verifs EXCEPT ![c] =
                     [@ EXCEPT !.st = "done",
                               !.res = [valid |-> FALSE, error |-> "mismatch"]]]
                /\ UNCHANGED lastRecvSeq
           ELSE /\ lastRecvSeq' = msg.seq
                /\ verifs' = [verifs EXCEPT ![c] =
                     [@ EXCEPT !.st = "done",
                               !.res = [valid |-> TRUE, error |-> "none"]]]
        /\ UNCHANGED <<cryptoKey, sendSeq, outbox>>

-----------------------------------------------------------------------------
(* JwtAuthProvider.verifyToken and its token cache (auth/provider.ts).     *)
(* Times are in clock ticks; a token is known by its number, which stands  *)
(* for its SHA-256 hash as well.                                           *)

NJwtTokens == 3     \* tokens presented to the provider
JwtTokens == 1..NJwtTokens

MAX_CACHE_SIZE == 2         \* 1000 in the code, scaled
DEFAULT_CACHE_TTL_MS == 2   \* 5 * 60 * 1000 in the code, scaled to ticks

\* payload.exp * 1000 of token j, 0 when the payload has no exp claim: the
\* last token has none, the others expire at 1, 3, ...
TokenExpiresMs(j) == IF j = NJwtTokens THEN 0 ELSE 2 * j - 1

\* jwtVerify(token, jwks, { issuer, audience }) resolves: the signature is
\* good and the exp claim, if any, is in the future
JwtValid(j, good) == good /\ (TokenExpiresMs(j) = 0 \/ now < TokenExpiresMs(j))

\* Math.min(tokenExpiresMs - Date.now(), DEFAULT_CACHE_TTL_MS), where
\* tokenExpiresMs is Infinity without an exp claim
CacheTtl(j) ==
    IF TokenExpiresMs(j) = 0 THEN DEFAULT_CACHE_TTL_MS
    ELSE Min(TokenExpiresMs(j) - now, DEFAULT_CACHE_TTL_MS)

\* this.tokenCache.get(cacheKey): the index of the entry, 0 if there is none
CacheIndex(cache, j) ==
    IF \E i \in 1..Len(cache) : cache[i].key = j
    THEN CHOOSE i \in 1..Len(cache) : cache[i].key = j
    ELSE 0

\* this.tokenCache.delete(cacheKey)
CacheDelete(cache, j) == SelectSeq(cache, LAMBDA e : e.key # j)

\* this.tokenCache.set(cacheKey, entry): an existing key keeps its place in
\* the iteration order, a new key goes last
CacheSet(cache, entry) ==
    IF CacheIndex(cache, entry.key) # 0
    THEN [cache EXCEPT ![CacheIndex(cache, entry.key)] = entry]
    ELSE Append(cache, entry)

\* mutant of CacheHit: an entry is still served at the instant it expires
CacheHitAtExpiry(cache, j) ==
    CacheIndex(cache, j) # 0 /\ now <= cache[CacheIndex(cache, j)].expiresAt

\* cached && Date.now() < cached.expiresAt
CacheHit(cache, j) ==
    CacheIndex(cache, j) # 0 /\ now < cache[CacheIndex(cache, j)].expiresAt

\* mutant of CacheFull: the comparison off by one
CacheFullOffByOne(cache) == Len(cache) > MAX_CACHE_SIZE

\* this.tokenCache.size >= JwtAuthProvider.MAX_CACHE_SIZE
CacheFull(cache) == Len(cache) >= MAX_CACHE_SIZE

\* the cache after the insertion made for token j: the oldest key is
\* deleted first if the cache is full.  insertedAt is history, the code
\* stores authInfo and expiresAt only.  The Date.now() read for cacheTtl and
\* the one read for expiresAt are in one synchronous segment, taken here as
\* one instant.
CacheInsert(cache, j) ==
    LET room == IF CacheFull(cache) THEN Tail(cache) ELSE cache
    IN  CacheSet(room, [key |-> j, expiresAt |-> now + CacheTtl(j),
                        insertedAt |-> now])

NoJwtResult == [kind |-> "none", at |-> 0, expiresAt |-> 0, insertedAt |-> 0]
IdleJwtCall == [st |-> "idle", token |-> 0, res |-> NoJwtResult]

JwtInit ==
    /\ tokenCache = <<>>
    /\ jwtCalls = [c \in Tasks |-> IdleJwtCall]

\* the provider of a specification that does not use it
JwtIdle == JwtInit


\* verifyToken(token) up to await this.hashToken(token)
VerifyToken(c, j) ==
    /\ jwtCalls[c].st \in {"idle", "done"}
    /\ jwtCalls' = [jwtCalls EXCEPT ![c] =
                      [st |-> "hashing", token |-> j, res |-> NoJwtResult]]
    /\ UNCHANGED tokenCache

\* after the hash: a live entry is returned; otherwise an expired entry is
\* deleted and the call goes on to await jwtVerify(...)
VerifyTokenLookup(c) ==
    LET j == jwtCalls[c].token
        i == CacheIndex(tokenCache, j)
    IN  /\ jwtCalls[c].st = "hashing"
        /\ IF CacheHit(tokenCache, j)
           THEN /\ jwtCalls' = [jwtCalls EXCEPT ![c] =
                      [st |-> "done", token |-> j,
                       res |-> [kind |-> "cached", at |-> now,
                                expiresAt |-> tokenCache[i].expiresAt,
                                insertedAt |-> tokenCache[i].insertedAt]]]
                /\ UNCHANGED tokenCache
           ELSE /\ tokenCache' = CacheDelete(tokenCache, j)
                /\ jwtCalls' = [jwtCalls EXCEPT ![c].st = "verifying"]

\* after jwtVerify: a rejection returns null; otherwise the AuthInfo is built,
\* cached if cacheTtl > 0, and returned
VerifyTokenVerified(c, good) ==
    LET j == jwtCalls[c].token
    IN  /\ jwtCalls[c].st = "verifying"
        /\ IF ~JwtValid(j, good)
           THEN /\ jwtCalls' = [jwtCalls EXCEPT ![c] =
                      [st |-> "done", token |-> j,
                       res |-> [NoJwtResult EXCEPT !.kind = "null",
                                                   !.at = now]]]
                /\ UNCHANGED tokenCache
           ELSE /\ tokenCache' = IF CacheTtl(j) > 0
                                 THEN CacheInsert(tokenCache, j)
                                 ELSE tokenCache
                /\ jwtCalls' = [jwtCalls EXCEPT ![c] =
                      [st |-> "done", token |-> j,
                       res |-> [NoJwtResult EXCEPT !.kind = "verified",
                                                   !.at = now]]]

-----------------------------------------------------------------------------
(* JwtAuthProvider.extractScopes (auth/provider.ts).  A string is the      *)
(* sequence of its characters, the empty string is <<>>.                   *)

MaxScopeLen == 3    \* longest scope claim tried, in characters
MaxScp == 2         \* longest scp array tried

ScopeChars == {"r", " "}
ScopeStrings == SeqsUpTo(ScopeChars, MaxScopeLen)

\* the elements of an scp array: the strings "r" and "", and a number
ScpElements == {[type |-> "string", s |-> <<"r">>],
                [type |-> "string", s |-> <<>>],
                [type |-> "number", s |-> <<>>]}
ScpArrays == SeqsUpTo(ScpElements, MaxScp)

\* the index of the first blank of s, 0 if it has none
FirstBlank(s) ==
    IF \E i \in 1..Len(s) : s[i] = " "
    THEN CHOOSE i \in 1..Len(s) :
            s[i] = " " /\ \A k \in 1..(i - 1) : s[k] # " "
    ELSE 0

\* s.split(" ")
RECURSIVE Split(_)
Split(s) ==
    IF FirstBlank(s) = 0 THEN <<s>>
    ELSE <<SubSeq(s, 1, FirstBlank(s) - 1)>>
         \o Split(SubSeq(s, FirstBlank(s) + 1, Len(s)))

\* extractScopes(payload)
ExtractScopes(p) ==
    IF p.scopeType = "string"
    THEN SelectSeq(Split(p.scope), LAMBDA x : x # <<>>)
    ELSE IF p.scpType = "array"
    THEN [i \in 1..Len(SelectSeq(p.scp, LAMBDA e : e.type = "string")) |->
             SelectSeq(p.scp, LAMBDA e : e.type = "string")[i].s]
    ELSE <<>>

NoPayload == [scopeType |-> "undefined", scope |-> <<>>,
              scpType |-> "undefined", scp |-> <<>>]
NotExtracted == [done |-> FALSE, scopes |-> <<>>]

\* the payloads of verified tokens: scope a string or not, scp an array or
\* not
Payloads ==
    {p \in [scopeType : {"string", "undefined"}, scope : ScopeStrings,
            scpType : {"array", "undefined"}, scp : ScpArrays] :
        /\ p.scopeType = "undefined" => p.scope = <<>>
        /\ p.scpType = "undefined" => p.scp = <<>>}

ScopesInit ==
    /\ jwtPayload \in Payloads
    /\ extracted = NotExtracted

\* the extraction of a specification that does not use it
ScopesIdle ==
    /\ jwtPayload = NoPayload
    /\ extracted = NotExtracted

\* scopes: this.extractScopes(payload), in a successful verifyToken
Extract ==
    /\ ~extracted.done
    /\ extracted' = [done |-> TRUE, scopes |-> ExtractScopes(jwtPayload)]
    /\ UNCHANGED jwtPayload
-----------------------------------------------------------------------------
(* Server-initiated SSE sends: the SSE clients of handleMcpGet's streams,  *)
(* sendToSession and broadcastNotification (concurrent-server.ts)          *)

NSseClients == 3    \* streams opened over the run
MaxSseKey == 1      \* keys of sseClients: 0 is "anonymous", the others are
                    \* session ids
MaxLastEventId == 1 \* values of the Last-Event-ID header
MaxSent == 3        \* messages sent over the run

SseClientIds == 1..NSseClients
SseKeys == 0..MaxSseKey

NoController == [key |-> 0, st |-> "none"]

SseInit ==
    /\ sseLists = <<>>
    /\ controllers = [c \in SseClientIds |-> NoController]
    /\ sentIds = <<>>

SseIdle == SseInit

\* the clients registered under key
ClientsOf(m, key) == IF key \in DOMAIN m THEN m[key] ELSE <<>>

Registered(m, c) ==
    \E key \in DOMAIN m : \E i \in 1..Len(m[key]) : m[key][i].cid = c

\* the session of key was removed by cleanupSessions, which closed its streams
SessionGone(key) ==
    \E c \in SseClientIds :
        controllers[c].key = key /\ controllers[c].st = "closed"

\* start(controller) of the stream of a GET: the client is pushed on the array
\* of its session id, or of "anonymous"; last is the parsed Last-Event-ID
StreamStart(c, key, last) ==
    /\ controllers[c].st = "none"
    /\ ~SessionGone(key)
    /\ sseLists' = MapSet(sseLists, key,
                          Append(ClientsOf(sseLists, key),
                                 [cid |-> c, lastEventId |-> last]))
    /\ controllers' = [controllers EXCEPT ![c] = [key |-> key, st |-> "open"]]
    /\ UNCHANGED sentIds

\* clients.splice(idx, 1) for idx = clients.indexOf(sseClient), if it is there
Splice(clients, c) == SelectSeq(clients, LAMBDA cl : cl.cid # c)

\* this.sseClients.delete(key) when the array is left empty
DropEmpty(m, key) ==
    IF key \in DOMAIN m /\ Len(m[key]) = 0 THEN MapDelete(m, key) ELSE m

\* cancel() of the stream: the peer disconnected
StreamCancel(c) ==
    /\ controllers[c].st = "open"
    /\ LET key == controllers[c].key
       IN sseLists' = IF key \in DOMAIN sseLists
                      THEN DropEmpty([sseLists EXCEPT
                                        ![key] = Splice(@, c)], key)
                      ELSE sseLists
    /\ controllers' = [controllers EXCEPT ![c].st = "cancelled"]
    /\ UNCHANGED sentIds

\* the stream of c breaks: from now on controller.enqueue throws
StreamBreak(c) ==
    /\ controllers[c].st = "open"
    /\ controllers' = [controllers EXCEPT ![c].st = "broken"]
    /\ UNCHANGED <<sseLists, sentIds>>

\* cleanupSessions on an expired session: its clients' controllers are closed
\* and its array is deleted
SseReap(key) ==
    /\ key # 0
    /\ key \in DOMAIN sseLists
    /\ controllers' = [c \in SseClientIds |->
                         IF \E i \in 1..Len(sseLists[key]) :
                                sseLists[key][i].cid = c
                         THEN [controllers[c] EXCEPT !.st = "closed"]
                         ELSE controllers[c]]
    /\ sseLists' = MapDelete(sseLists, key)
    /\ UNCHANGED sentIds

\* client.controller.enqueue(...) throws
EnqueueFails(cl) == controllers[cl.cid].st # "open"

\* the loop of sendToSession: the clients whose enqueue succeeds get
\* lastEventId = eventId, the others are spliced out of the array
EnqueueAllKeepDead(clients, eventId) ==
    [i \in 1..Len(clients) |->
        IF EnqueueFails(clients[i]) THEN clients[i]
        ELSE [clients[i] EXCEPT !.lastEventId = eventId]]
EnqueueAll(clients, eventId) ==
    LET live == SelectSeq(clients, LAMBDA cl : ~EnqueueFails(cl))
    IN [i \in 1..Len(live) |-> [live[i] EXCEPT !.lastEventId = eventId]]

\* const eventId = Date.now()
EventId == now

\* sendToSession(sessionId, message) on the map m: the map it leaves
SendResult(m, key) ==
    IF ClientsOf(m, key) = <<>> THEN m
    ELSE DropEmpty([m EXCEPT ![key] = EnqueueAll(@, EventId)], key)

\* the message went out on at least one stream
Delivered(m, key) ==
    \E i \in 1..Len(ClientsOf(m, key)) : ~EnqueueFails(m[key][i])

SendToSession(key) ==
    /\ Len(sentIds) < MaxSent
    /\ sseLists' = SendResult(sseLists, key)
    /\ sentIds' = IF Delivered(sseLists, key) THEN Append(sentIds, EventId)
                  ELSE sentIds
    /\ UNCHANGED controllers

\* broadcastNotification: sendToSession for every key of the map; the calls
\* run in one synchronous stretch, their Date.now() reads are taken as one
\* instant
BroadcastNotification ==
    /\ Len(sentIds) < MaxSent
    /\ sseLists' = [key \in {k \in DOMAIN sseLists :
                               k \in DOMAIN SendResult(sseLists, k)} |->
                       SendResult(sseLists, key)[key]]
    /\ sentIds' = IF \E key \in DOMAIN sseLists : Delivered(sseLists, key)
                  THEN Append(sentIds, EventId)
                  ELSE sentIds
    /\ UNCHANGED controllers
-----------------------------------------------------------------------------
(* stop() of the server in HTTP mode (concurrent-server.ts), and the       *)
(* pending requests of the sampling bridge it cancels                      *)

NStoppers == 2      \* callers of stop()
MaxPending == 1     \* sampling requests pending at once

Stoppers == 1..NStoppers

\* the other components beside the server
nonstopext == <<sigvars, rlqvars, jwtvars, scopevars, ssevars>>

IdleStop == [pc |-> "idle", log |-> <<>>]

StopInit ==
    /\ stops = [s \in Stoppers |-> IdleStop]
    /\ timerCleared = FALSE
    /\ pendingRequests = 0
    /\ httpShutdown = "no"
    /\ protocolClosed = FALSE

StopIdle == StopInit

ExtIdle ==
    SignerIdle /\ RLQueryIdle /\ JwtIdle /\ ScopesIdle /\ SseIdle /\ StopIdle

\* SamplingBridge.requestSampling: pendingRequests.set(id, ...)
RequestSampling ==
    /\ pendingRequests < MaxPending
    /\ pendingRequests' = pendingRequests + 1
    /\ UNCHANGED <<stops, timerCleared, httpShutdown, protocolClosed>>

\* SamplingBridge.handleResponse / the timeout: pendingRequests.delete(id)
SamplingSettled ==
    /\ pendingRequests > 0
    /\ pendingRequests' = pendingRequests - 1
    /\ UNCHANGED <<stops, timerCleared, httpShutdown, protocolClosed>>

\* SamplingBridge.cancelAll: every pending request is rejected, the map is
\* cleared
CancelAll(n) == 0

\* mutant of CloseAllSse: stop() leaves the SSE clients alone
CloseAllSseNone(sse) == sse

\* stop(): every client's controller is closed and every key is deleted
CloseAllSse(sse) == <<>>

\* the requests the listener is still serving: handlers that have not
\* returned, and streams that are still open
Serving(c) ==
    \/ reqs[c].st \notin {"idle", "answered", "streaming"}
    \/ /\ reqs[c].st = "streaming"
       /\ reqs[c].sid \in DOMAIN sseClients
       /\ c \in sseClients[reqs[c].sid]

\* Deno.serve().shutdown() resolves once every connection has drained
Drained == \A c \in Tasks : ~Serving(c)

\* stop() up to its first await: the early return when the server is not
\* started; else the timer, the sampling requests, the SSE clients, then
\* httpServer.shutdown() is called, or, with no httpServer,
\* mcpServer.server.close()
StopBegin(s) ==
    /\ stops[s].pc = "idle"
    /\ IF ~started
       THEN /\ stops' = [stops EXCEPT ![s].pc = "done"]
            /\ UNCHANGED <<timerCleared, pendingRequests, httpShutdown,
                           protocolClosed, sseClients>>
       ELSE /\ timerCleared' = TRUE
            /\ pendingRequests' = CancelAll(pendingRequests)
            /\ sseClients' = CloseAllSse(sseClients)
            /\ IF httpShutdown # "done"
               THEN /\ httpShutdown' = "begun"
                    /\ stops' = [stops EXCEPT ![s] =
                          [pc |-> "shutdown",
                           log |-> <<"timer", "sampling", "sse", "listener">>]]
                    /\ UNCHANGED protocolClosed
               ELSE /\ protocolClosed' = TRUE
                    /\ stops' = [stops EXCEPT ![s] =
                          [pc |-> "closing",
                           log |-> <<"timer", "sampling", "sse", "protocol">>]]
                    /\ UNCHANGED httpShutdown
    /\ UNCHANGED <<httpRateLimit, sessions, sessionSeq, nextCleanupAt, reqs>>
    /\ UNCHANGED <<qvars, rlvars, regvars, pipevars, nonstopext>>

\* stop() after await this.httpServer.shutdown(): httpServer = null, then
\* mcpServer.server.close() is called
StopListenerDown(s) ==
    /\ stops[s].pc = "shutdown"
    /\ Drained
    /\ httpShutdown' = "done"
    /\ protocolClosed' = TRUE
    /\ stops' = [stops EXCEPT ![s] =
                   [pc |-> "closing", log |-> Append(@.log, "protocol")]]
    /\ UNCHANGED <<timerCleared, pendingRequests>>
    /\ UNCHANGED <<servervars, nonstopext>>

\* stop() after await this.mcpServer.server.close(): started = false
StopClosed(s) ==
    /\ stops[s].pc = "closing"
    /\ started' = FALSE
    /\ stops' = [stops EXCEPT ![s].pc = "done"]
    /\ UNCHANGED <<timerCleared, pendingRequests, httpShutdown,
                   protocolClosed>>
    /\ UNCHANGED <<tools, resources, lastReg>>
    /\ UNCHANGED <<qvars, rlvars, pipevars, httpvars, nonstopext>>
-----------------------------------------------------------------------------
(* What each component's own actions leave unchanged *)

nonq == <<rlvars, regvars, pipevars, httpvars, extvars>>
nonrl == <<qvars, regvars, pipevars, httpvars, extvars>>
nonsig == <<servervars, rlqvars, jwtvars, scopevars, ssevars, stopvars>>
nonrlq == <<servervars, sigvars, jwtvars, scopevars, ssevars, stopvars>>
nonjwt == <<servervars, sigvars, rlqvars, scopevars, ssevars, stopvars>>
nonscope == <<servervars, sigvars, rlqvars, jwtvars, ssevars, stopvars>>
nonsse == <<servervars, sigvars, rlqvars, jwtvars, scopevars, stopvars>>
nonreg == <<qvars, rlvars, pipevars, httpvars, extvars>>

-----------------------------------------------------------------------------
(* Callers of a RequestQueue: the interleavings of acquire() and release() *)

QAcquire(c) ==
    /\ qpc[c] = "idle"
    /\ Acquire(c)
    /\ UNCHANGED nonq

QResume(c) ==
    /\ qpc[c] = "woken"
    /\ AcquireResume(c)
    /\ UNCHANGED nonq

QSleepWake(c) ==
    /\ qpc[c] = "sleeping"
    /\ AcquireSleepWake(c)
    /\ UNCHANGED nonq

QRelease(c) ==
    /\ qpc[c] = "holding"
    /\ Release(c)
    /\ UNCHANGED strayReleases
    /\ UNCHANGED nonq

\* release() by code that holds no slot (the class does not forbid it)
QReleaseStray ==
    /\ strayReleases < MaxStray
    /\ strayReleases' = strayReleases + 1
    /\ Release(0)
    /\ UNCHANGED nonq

QueueNext ==
    \/ \E c \in Tasks : QAcquire(c)
    \/ \E c \in Tasks : QResume(c)
    \/ \E c \in Tasks : QSleepWake(c)
    \/ \E c \in Tasks : QRelease(c)
    \/ QReleaseStray

InitQueue ==
    QueueInit /\ RLIdle /\ RegIdle /\ PipeIdle /\ HttpIdle
    /\ ExtIdle

SpecQueue == InitQueue /\ [][QueueNext]_vars

-----------------------------------------------------------------------------
(* Claims on the RequestQueue, checked under SpecQueue *)

\* C1: for every strategy and every interleaving of acquire() and release(),
\* inFlight <= maxConcurrent in every state between two synchronous segments.
C1_InFlightWithinLimit == inFlight <= maxConcurrent

\* C1 witness: the queue is full while a woken waiter has not yet re-tested
\* the capacity (another task took the slot that was freed for it).
C1_Witness ==
    /\ strategy = "queue"
    /\ inFlight = maxConcurrent
    /\ microtasks # <<>>
    /\ \E c \in Tasks : qpc[c] = "holding"

\* C3 (as claimed): with the queue strategy a task is admitted only when no
\* task that called acquire() before it is still inside acquire() (stated
\* for runs in which every release() is made by a holder of a slot).
C3_AdmittedInArrivalOrder ==
    [][\A c \in Tasks :
          (strategy = "queue" /\ strayReleases = 0
             /\ qpc[c] # "holding" /\ qpc'[c] = "holding")
              => (pending = <<>> \/ Head(pending) = c)]_vars


\* the tasks whose resolve closure is called in this step
Woken == {c \in Tasks : qpc[c] = "waiting" /\ qpc'[c] # "waiting"}

\* C15: with the queue strategy a release() wakes at most one waiter, and
\* the waiter it wakes is the head of the wait list, the one that has been
\* in the list longest; no other step wakes a waiter.
C15_ReleaseWakesHead ==
    [][/\ Cardinality(Woken) <= 1
       /\ \A c \in Woken :
             /\ inFlight' = inFlight - 1
             /\ waitQueue # <<>>
             /\ c = Head(waitQueue)
             /\ \A d \in Range(waitQueue) : d \in Woken \/ d \in Range(waitQueue')
             /\ microtasks' = Append(microtasks, c)]_vars

\* a release() has woken the first of two waiters: its continuation is
\* queued and the second waiter is still in the wait list
C15_Witness ==
    /\ strategy = "queue"
    /\ Len(microtasks) = 1
    /\ Len(waitQueue) = 1
    /\ qpc[Head(microtasks)] = "woken"
    /\ qpc[Head(waitQueue)] = "waiting"
    /\ pending = <<Head(microtasks), Head(waitQueue)>>

\* C16: with the reject strategy acquire() never blocks (no caller is ever
\* suspended); called when inFlight >= maxConcurrent it throws at once a
\* capacity error that carries the limit and leaves inFlight unchanged,
\* otherwise it takes a slot; so with maxConcurrent = 1 at most one caller
\* holds a slot as long as every release() is made by a holder.
C16_RejectFailsAtOnce ==
    /\ [](strategy = "reject" =>
            /\ waitQueue = <<>> /\ microtasks = <<>>
            /\ \A c \in Tasks : qpc[c] \in {"idle", "holding"}
            /\ (maxConcurrent = 1 /\ strayReleases = 0) =>
                  Cardinality({c \in Tasks : qpc[c] = "holding"}) <= 1)
    /\ [][\A c \in Tasks :
            (strategy = "reject" /\ QAcquire(c)) =>
                IF inFlight >= maxConcurrent
                THEN /\ qpc'[c] = "idle"
                     /\ qres'[c].kind = "capacity"
                     /\ qres'[c].limit = maxConcurrent
                     /\ inFlight' = inFlight
                ELSE /\ qpc'[c] = "holding"
                     /\ qres'[c].kind = "ok"
                     /\ inFlight' = inFlight + 1]_vars

\* reject strategy, maxConcurrent = 1, no release so far by a non-holder:
\* one caller holds the slot, a second has been refused with the capacity
\* error, a third one too
C16_Witness ==
    /\ strategy = "reject" /\ maxConcurrent = 1 /\ strayReleases = 0
    /\ inFlight = 1
    /\ Cardinality({c \in Tasks : qpc[c] = "holding"}) = 1
    /\ Cardinality({c \in Tasks : qpc[c] = "idle"
                                    /\ qres[c] = CapacityError(1)}) = 2

-----------------------------------------------------------------------------
(* Progress of the queue strategy: the continuation of a woken acquire()   *)
(* runs, and a task that holds a slot releases it.                         *)

QueueFairness ==
    \A c \in Tasks : WF_vars(QResume(c)) /\ WF_vars(QRelease(c))

SpecQueueLive == InitQueue /\ [][QueueNext]_vars /\ QueueFairness

\* C14: with the queue strategy a task suspended in acquire() is eventually
\* admitted, given that the tasks that hold a slot keep releasing.
C14_WaiterEventuallyAdmitted ==
    \A c \in Tasks :
        (strategy = "queue" /\ qpc[c] = "waiting") ~> (qpc[c] = "holding")

\* C39: RequestQueue.inFlight is never negative, for every sequence of
\* acquire() and release() calls, a release() with no matching successful
\* acquire() included.
C39_InFlightNotNegative == inFlight >= 0
-----------------------------------------------------------------------------
(* Callers of one RateLimiter (the tool-call limiter) *)

\* a direct checkLimit(key) call
RLCheckLimit(key) ==
    /\ CheckLimit("tool", key)
    /\ UNCHANGED <<maxRequests, windowMs, now, rlpc, rlwait, retries, wakeAt>>
    /\ UNCHANGED nonrl

\* waitForSlot(key) is called: retries = 0, first pass of the loop
RLWaitForSlot(w, key) ==
    /\ rlpc[w] = "idle"
    /\ WaitForSlotStep(w, "tool", key, 0)
    /\ UNCHANGED nonrl

\* the backoff timer of waitForSlot fires: next pass of the loop
RLWaitRetry(w) ==
    /\ rlpc[w] = "backoff"
    /\ now >= wakeAt[w]
    /\ WaitForSlotStep(w, rlwait[w].lim, rlwait[w].key, retries[w])
    /\ UNCHANGED nonrl

RLTick ==
    /\ Tick(MaxTime)
    /\ UNCHANGED nonrl

RLNext ==
    \/ \E k \in Keys : RLCheckLimit(k)
    \/ \E w \in Workers, k \in Keys : RLWaitForSlot(w, k)
    \/ \E w \in Workers : RLWaitRetry(w)
    \/ RLTick

InitRL ==
    QueueIdle /\ RLInit /\ RegIdle /\ PipeIdle /\ HttpIdle
    /\ ExtIdle

SpecRL == InitRL /\ [][RLNext]_vars

-----------------------------------------------------------------------------
(* Claims on the RateLimiter, checked under SpecRL *)

\* the number of checkLimit(key) calls of limiter lim that returned true in
\* the window that ends now
GrantedInWindow(lim, key) ==
    Cardinality({i \in 1..Len(granted[lim][key]) :
                    now - granted[lim][key][i] < windowMs[lim]})

-----------------------------------------------------------------------------
(* Callers of the tool-call limiter that also call its read-only methods *)

RLGetCurrentCount(key) ==
    /\ Query("getCurrentCount", "tool", key)
    /\ UNCHANGED nonrlq

RLGetRemainingRequests(key) ==
    /\ Query("getRemainingRequests", "tool", key)
    /\ UNCHANGED nonrlq

RLGetTimeUntilSlot(key) ==
    /\ Query("getTimeUntilSlot", "tool", key)
    /\ UNCHANGED nonrlq

RLQueryNext ==
    \/ \E k \in Keys : RLCheckLimit(k)
    \/ \E w \in Workers, k \in Keys : RLWaitForSlot(w, k)
    \/ \E w \in Workers : RLWaitRetry(w)
    \/ RLTick
    \/ \E k \in Keys : RLGetCurrentCount(k)
    \/ \E k \in Keys : RLGetRemainingRequests(k)
    \/ \E k \in Keys : RLGetTimeUntilSlot(k)

SpecRLQuery == InitRL /\ [][RLQueryNext]_vars

\* time passes, the timers of waitForSlot fire, and the limiter keeps being
\* used: its callers go on calling its methods
RLQueryFairness ==
    /\ WF_vars(RLTick)
    /\ \A w \in Workers : WF_vars(RLWaitRetry(w))
    /\ WF_vars(\E k \in Keys : RLGetCurrentCount(k) \/ RLGetRemainingRequests(k))

SpecRLQueryLive == InitRL /\ [][RLQueryNext]_vars /\ RLQueryFairness

-----------------------------------------------------------------------------
(* Claims on the read-only methods and on what the limiter stores,         *)
(* checked under SpecRLQuery                                               *)

\* the timestamps the tool-call limiter stores for key
Stored(key) == GetRequests(requestCounts["tool"], key)

\* the number of timestamps stored for key that lie in [now - windowMs, now]
CountClosedWindow(key) ==
    Cardinality({i \in 1..Len(Stored(key)) :
                    /\ now - windowMs["tool"] <= Stored(key)[i]
                    /\ Stored(key)[i] <= now})

\* the number of timestamps stored for key that lie in (now - windowMs, now]
CountHalfOpenWindow(key) ==
    Cardinality({i \in 1..Len(Stored(key)) :
                    /\ now - windowMs["tool"] < Stored(key)[i]
                    /\ Stored(key)[i] <= now})

\* C17 (as claimed): getCurrentCount(k) called at time t returns the number
\* of timestamps recorded for k that lie within the closed interval
\* [t - windowMs, t].
C17_CountOfClosedWindow ==
    [][\A k \in Keys :
          RLGetCurrentCount(k) => lastQuery'.value = CountClosedWindow(k)]_vars

\* C17 (amended): getCurrentCount(k) called at time t returns the number of
\* timestamps recorded for k that lie within the half-open interval
\* (t - windowMs, t]: a timestamp exactly windowMs old is not counted.
C17_CountOfHalfOpenWindow ==
    [][\A k \in Keys :
          RLGetCurrentCount(k) => lastQuery'.value = CountHalfOpenWindow(k)]_vars

\* getCurrentCount has returned 1 for a key with two stored timestamps, one
\* of them exactly windowMs old
C17_Witness ==
    \E k \in Keys :
        /\ lastQuery = [op |-> "getCurrentCount", key |-> k, at |-> now,
                        value |-> 1]
        /\ Len(Stored(k)) = 2
        /\ Stored(k)[1] = now - windowMs["tool"]
        /\ Stored(k)[2] > now - windowMs["tool"]

\* a checkLimit(key) is made in this step, directly or by waitForSlot
Writes(key) ==
    \/ RLCheckLimit(key)
    \/ \E w \in Workers : RLWaitForSlot(w, key)
    \/ \E w \in Workers : rlwait[w].key = key /\ RLWaitRetry(w)

\* a read-only method is called for key in this step
Reads(key) ==
    \/ RLGetCurrentCount(key)
    \/ RLGetRemainingRequests(key)
    \/ RLGetTimeUntilSlot(key)

\* C18 (as claimed): every operation that touches a key (checkLimit,
\* waitForSlot, getCurrentCount, getRemainingRequests, getTimeUntilSlot)
\* leaves in that key's stored list no timestamp outside the window (stated
\* for the window with both ends included, the reading most favourable to
\* the claim).
C18_EveryTouchPrunes ==
    [][\A k \in Keys :
          (Writes(k) \/ Reads(k)) =>
              \A i \in 1..Len(Stored(k)') :
                  now' - Stored(k)'[i] <= windowMs["tool"]]_vars

\* C18 (amended): every checkLimit of a key, direct or made by waitForSlot,
\* leaves in that key's stored list only timestamps within the window
\* (t - windowMs, t]; getCurrentCount, getRemainingRequests and
\* getTimeUntilSlot store nothing and leave every stored list as it is.
C18_CheckLimitPrunes ==
    [][\A k \in Keys :
          /\ Writes(k) =>
                \A i \in 1..Len(Stored(k)') :
                    now' - Stored(k)'[i] < windowMs["tool"]
          /\ Reads(k) => requestCounts' = requestCounts]_vars

\* getCurrentCount has just returned 0 for a key whose stored list is not
\* empty: every timestamp in it is outside the window and is still stored;
\* an earlier checkLimit of the key was refused
C18_Witness ==
    \E k \in Keys :
        /\ lastQuery = [op |-> "getCurrentCount", key |-> k, at |-> now,
                        value |-> 0]
        /\ Stored(k) # <<>>
        /\ \A i \in 1..Len(Stored(k)) :
              now - Stored(k)[i] > windowMs["tool"]
        /\ lastCheck = [lim |-> "tool", key |-> k, ok |-> FALSE]

-----------------------------------------------------------------------------
(* Claim on the keys the limiter keeps, checked under SpecRLQueryLive      *)

\* the keys of the tool-call limiter's map
StoredKeys == DOMAIN requestCounts["tool"]

\* C19: a key whose window has become empty does not stay in the map for
\* ever: without any call to clear or clearAll it is eventually purged
\* (unless a new request of the key is recorded first).
C19_EmptyKeysPurged ==
    \A k \in Keys :
        (k \in StoredKeys /\ CountHalfOpenWindow(k) = 0)
            ~> (k \notin StoredKeys \/ CountHalfOpenWindow(k) > 0)
-----------------------------------------------------------------------------
(* Users of the registry: registration calls in any order *)

RegTool(name, scopes) == RegisterTool(name, scopes) /\ UNCHANGED nonreg

RegTools(batch, scopes, handlers) ==
    RegisterTools(batch, scopes, handlers) /\ UNCHANGED nonreg

RegToolLive(name, scopes) == RegisterToolLive(name, scopes) /\ UNCHANGED nonreg

RegUnregisterTool(name) == UnregisterTool(name) /\ UNCHANGED nonreg

RegResource(uri) == RegisterResource(uri) /\ UNCHANGED nonreg

RegResources(batch, handlers) ==
    RegisterResources(batch, handlers) /\ UNCHANGED nonreg

RegStart == Start /\ UNCHANGED nonreg

RegNext ==
    \/ \E t \in ToolNames, s \in ScopeLists : RegTool(t, s)
    \/ \E b \in SeqsUpTo(ToolNames, MaxBatch), s \in ScopeLists,
          h \in SUBSET ToolNames : RegTools(b, s, h)
    \/ \E t \in ToolNames, s \in ScopeLists : RegToolLive(t, s)
    \/ \E t \in ToolNames : RegUnregisterTool(t)
    \/ \E u \in Uris : RegResource(u)
    \/ \E b \in SeqsUpTo(Uris, MaxBatch), h \in SUBSET Uris : RegResources(b, h)
    \/ RegStart

InitReg ==
    QueueIdle /\ RLIdle /\ RegInit /\ PipeIdle /\ HttpIdle
    /\ ExtIdle

SpecReg == InitReg /\ [][RegNext]_vars

-----------------------------------------------------------------------------
(* Claims on the registry, checked under SpecReg *)

\* C8 (as claimed): registerResources is atomic: whenever a call fails, the
\* resource registry is exactly as it was before the call.
C8_FailedBatchLeavesRegistry ==
    (lastReg.op = "registerResources" /\ ~lastReg.ok)
        => resources = lastReg.before


\* C25 (as claimed): a registerTool or registerTools call that names a tool
\* whose name is already in the registry is rejected with an error.
C25_DuplicateToolRejected ==
    (/\ lastReg.op \in {"registerTool", "registerTools"}
     /\ \E i \in 1..Len(lastReg.batch) : lastReg.batch[i] \in lastReg.before)
        => ~lastReg.ok
-----------------------------------------------------------------------------
(* A server from its construction, with one client that makes one call at  *)
(* a time: registration and use() before start, then tool calls (over      *)
(* stdio or HTTP) and live registration                                    *)

\* the tools registered before start, and the one registered live
PreTools == 1..(NTools - 1)
LiveTools == {NTools}

\* the task of the client
Client == CHOOSE c \in Tasks : \A d \in Tasks : c <= d

PUse(b) ==
    /\ Len(customMiddlewares) < MaxUser
    /\ Use(b)
    /\ UNCHANGED <<qvars, rlvars, regvars, httpvars, extvars>>

PRegisterTool(name, scopes) ==
    /\ ~started
    /\ tools = <<>>
    /\ RegisterTool(name, scopes)
    /\ UNCHANGED <<qvars, rlvars, pipevars, httpvars, extvars>>

PStartServer ==
    /\ StartServer
    /\ UNCHANGED <<qvars, rlvars, httpvars, extvars>>

\* a stdio call carries no request, hence no token
PCall(c, toolName, http, token) ==
    /\ ~http => token = "none"
    /\ ExecuteToolCall(c, toolName, http, token)
    /\ UNCHANGED <<qvars, rlvars, regvars, httpvars, extvars>>

PRegisterToolLive(name, scopes) ==
    /\ started
    /\ liveOps < MaxLive
    /\ liveOps' = liveOps + 1
    /\ RegisterToolLive(name, scopes)
    /\ UNCHANGED <<qvars, rlvars, pipecfg, calls, httpvars, extvars>>

PUnregisterTool(name) ==
    /\ started
    /\ liveOps < MaxLive
    /\ name \in DOMAIN tools
    /\ liveOps' = liveOps + 1
    /\ UnregisterTool(name)
    /\ UNCHANGED <<qvars, rlvars, pipecfg, calls, httpvars, extvars>>

\* only the rate limiter looks at the clock, and only once it holds a key
PTick ==
    /\ DOMAIN requestCounts["tool"] # {}
    /\ Tick(MaxPipeTime)
    /\ UNCHANGED <<qvars, regvars, pipevars, httpvars, extvars>>

PipeNext ==
    \/ \E b \in Behaviours : PUse(b)
    \/ \E t \in PreTools, s \in ScopeLists : PRegisterTool(t, s)
    \/ PStartServer
    \/ \E t \in ToolNames, h \in BOOLEAN, k \in Tokens : PCall(Client, t, h, k)
    \/ CallStep(Client)
    \/ CallRateLimitRetry(Client)
    \/ CallAuthVerified(Client)
    \/ \E t \in LiveTools, s \in ScopeLists : PRegisterToolLive(t, s)
    \/ \E t \in ToolNames : PUnregisterTool(t)
    \/ PTick

\* new RequestQueue({ maxConcurrent: 1, strategy })
PipeQueueInit ==
    /\ QueueInit
    /\ maxConcurrent = 1

InitPipe ==
    PipeQueueInit /\ RLIdle /\ RegInit /\ PipeConfigInit /\ HttpIdle
    /\ ExtIdle

SpecPipe == InitPipe /\ [][PipeNext]_vars

-----------------------------------------------------------------------------
(* Claims on the pipeline, checked under SpecPipe *)

\* the place of a stage in the documented order
StageRank(stage) ==
    CASE stage = "rate-limit" -> 1
      [] stage = "auth" -> 2
      [] stage = "user" -> 3
      [] stage = "scope" -> 4
      [] stage = "validation" -> 5
      [] stage = "backpressure" -> 6

\* the runner's list is in the documented order, the user middlewares in
\* the order of their registration, each optional stage present exactly
\* when it is configured
PipelineInFixedOrder ==
    started =>
      /\ \A i, j \in 1..Len(middlewares) :
            i < j => /\ StageRank(middlewares[i].stage)
                          <= StageRank(middlewares[j].stage)
                     /\ (middlewares[i].stage = middlewares[j].stage
                          => middlewares[i].stage = "user")
      /\ SelectSeq(middlewares, LAMBDA m : m.stage = "user")
            = [i \in 1..Len(customMiddlewares) |->
                 Stage("user", customMiddlewares[i])]
      /\ (\E i \in 1..Len(middlewares) : middlewares[i].stage = "rate-limit")
            <=> rateLimit # "none"
      /\ (\E i \in 1..Len(middlewares) : middlewares[i].stage = "auth")
            <=> authProvider
      /\ (\E i \in 1..Len(middlewares) : middlewares[i].stage = "scope")
            <=> DOMAIN toolScopes # {}
      /\ (\E i \in 1..Len(middlewares) : middlewares[i].stage = "validation")
            <=> schemaValidator
      /\ middlewares[Len(middlewares)].stage = "backpressure"

\* C5 (as claimed): for every tool call the stages are entered in the fixed
\* order rate-limit, auth, user middlewares, scope-check, validation,
\* backpressure, handler, and no stage is entered before every earlier stage
\* has called next().
C5_StagesEnteredInOrder ==
    /\ PipelineInFixedOrder
    /\ \A c \in Tasks :
          \A i \in 1..Len(calls[c].entered) :
             \A p \in 1..(calls[c].entered[i] - 1) : p \in calls[c].nexted

\* C6 (as claimed): for a call to a tool with non-empty requiredScopes and
\* with authInfo set, the scope check passes if and only if every required
\* scope is in authInfo.scopes; otherwise it fails with the insufficient-scope
\* error that carries exactly the missing scopes, and the handler is not run.
C6_ScopeCheckDecides ==
    \A c \in Tasks :
       LET r == calls[c]
           scopePos == {p \in 1..Len(middlewares) :
                          middlewares[p].stage = "scope"}
           subject == /\ r.authInfo.set
                      /\ Len(r.declared) > 0
                      /\ r.toolName \in DOMAIN tools
                      /\ tools[r.toolName] = r.declared
           hasAll == HasAll(r.declared, r.authInfo.scopes)
       IN  /\ \A i \in 1..Len(r.ran) :
                (r.authInfo.set /\ Len(r.ran[i]) > 0)
                   => HasAll(r.ran[i], r.authInfo.scopes)
           /\ subject =>
                \A p \in scopePos :
                   /\ p \in r.nexted => hasAll
                   /\ (hasAll /\ p \in Range(r.entered)) => p \in r.nexted
                   /\ (~hasAll /\ r.index = p /\ r.cur = "ret")
                        => r.res = AuthError("insufficient_scope",
                                      MissingScopes(r.declared,
                                                    r.authInfo.scopes))


\* the handler has been reached in the run of task c: the pipeline position
\* after the last middleware has been dispatched
HandlerReached(c) == (Len(middlewares) + 1) \in Range(calls[c].entered)

OncePipeline ==
    \A i \in 1..Len(middlewares) :
        middlewares[i].stage = "user" => middlewares[i].b = "once"

\* every middleware of the pipeline has called next() in the run r
AllNexted(r) == r.nexted = 1..Len(middlewares)

\* the positions of the suspended middlewares grow from the outermost to the
\* innermost
FramesInOrder(r) ==
    \A i, j \in 1..Len(r.frames) : i < j => r.frames[i].pos < r.frames[j].pos

\* C35: onion order.  In a pipeline whose middlewares each call next() once,
\* the pre-phases run in the order of the list, then the handler runs, once;
\* the post-phases run after the handler, the innermost pending one first,
\* and hand the handler's result on unchanged; the run that ends has gone
\* through every position once and returns the handler's result.
C35_OnionOrder ==
    [][LET r == calls[Client]
           s == calls'[Client]
       IN  (OncePipeline /\ r.st = "run") =>
             /\ FramesInOrder(s)
             /\ \A i \in 1..Len(s.entered) : s.entered[i] = i
             /\ Len(s.frames) < Len(r.frames) =>
                   /\ r.cur = "ret"
                   /\ s.frames = SubSeq(r.frames, 1, Len(r.frames) - 1)
                   /\ AllNexted(r) => r.handlerCalled /\ s.res = r.res
             /\ (s.st = "done" /\ AllNexted(s)) =>
                   /\ s.entered = [i \in 1..(Len(middlewares) + 1) |-> i]
                   /\ s.handlerCalled
                   /\ s.frames = <<>>
                   /\ s.res \in {OkRes("tool"), ErrRes("handler_error"),
                                 ErrRes("unknown_tool")}]_vars

\* a run through a rate limit, a middleware given to use() and the
\* backpressure middleware has returned the handler's result
C35_Witness ==
    LET r == calls[Client]
    IN  /\ OncePipeline
        /\ Len(middlewares) >= 3
        /\ \E i \in 1..Len(middlewares) : middlewares[i].stage = "user"
        /\ r.st = "done"
        /\ AllNexted(r)
        /\ r.res = OkRes("tool")

\* C36 (as claimed): a call for a tool that was registered when the call
\* entered the pipeline runs that tool's handler, even if the tool is
\* unregistered before the call finishes: once the runner has reached its
\* handler, the tool's handler has been run, and the call does not end with
\* the error of an unknown tool.
C36_InFlightCallRunsHandler ==
    LET r == calls[Client]
    IN  (r.known /\ r.handlerCalled) =>
            /\ Len(r.ran) >= 1
            /\ r.res # ErrRes("unknown_tool")

\* C38: scope enforcement covers every registered tool: a tool with
\* non-empty requiredScopes is never executed for an HTTP call whose authInfo
\* lacks one of those scopes, also when the tool was added with
\* registerToolLive after the pipeline was built.
C38_ScopesCoverEveryTool ==
    \A c \in Tasks :
       LET r == calls[c]
       IN  (r.http /\ r.authInfo.set) =>
              \A i \in 1..Len(r.ran) : HasAll(r.ran[i], r.authInfo.scopes)

-----------------------------------------------------------------------------
(* A server with an auth provider and a middleware given to use() that     *)
(* writes to ctx.authInfo                                                  *)

AuthCtxNext ==
    \/ \E b \in AuthBehaviours : PUse(b)
    \/ \E t \in PreTools, s \in ScopeLists : PRegisterTool(t, s)
    \/ PStartServer
    \/ \E t \in ToolNames, h \in BOOLEAN, k \in Tokens : PCall(Client, t, h, k)
    \/ CallStep(Client)
    \/ CallAuthVerified(Client)

\* new ConcurrentMCPServer({ auth: { provider } }), no rateLimit option
InitAuthCtx ==
    /\ InitPipe
    /\ authProvider
    /\ rateLimit = "none"

SpecAuthCtx == InitAuthCtx /\ [][AuthCtxNext]_vars

\* C21 (as claimed): once the auth middleware has set ctx.authInfo, no later
\* step of that call changes the authInfo that the scope check and the
\* handler find in ctx.
C21_AuthInfoImmutable ==
    [][\A c \in Tasks :
          (calls[c].st = "run" /\ calls[c].authInfo.set
             /\ calls'[c].st = "run")
              => calls'[c].authInfo = calls[c].authInfo]_vars
-----------------------------------------------------------------------------
(* Concurrent tool calls on a started server without rate limit and auth:  *)
(* the calls meet in the RequestQueue of the backpressure middleware       *)

BUse(b) ==
    /\ Len(customMiddlewares) < MaxUser
    /\ Use(b)
    /\ UNCHANGED <<qvars, rlvars, regvars, httpvars, extvars>>

BRegisterTool(name, scopes) ==
    /\ ~started
    /\ tools = <<>>
    /\ RegisterTool(name, scopes)
    /\ UNCHANGED <<qvars, rlvars, pipevars, httpvars, extvars>>

BStartServer ==
    /\ StartServer
    /\ UNCHANGED <<qvars, rlvars, httpvars, extvars>>

\* each task makes one call, over stdio
BCall(c, toolName) ==
    /\ calls[c].st = "idle"
    /\ ExecuteToolCall(c, toolName, FALSE, "none")
    /\ UNCHANGED <<qvars, rlvars, regvars, httpvars, extvars>>

BpNext ==
    \/ \E b \in Behaviours : BUse(b)
    \/ \E t \in PreTools : BRegisterTool(t, <<>>)
    \/ BStartServer
    \/ \E c \in Workers, t \in ToolNames : BCall(c, t)
    \/ \E c \in Workers : CallStep(c)
    \/ \E c \in Workers : CallQueueStep(c)

BpConfigInit ==
    /\ PipeConfigInit
    /\ rateLimit = "none"
    /\ authProvider = FALSE

InitBp ==
    PipeQueueInit /\ RLIdle /\ RegInit /\ BpConfigInit /\ HttpIdle
    /\ ExtIdle

SpecBp == InitBp /\ [][BpNext]_vars

-----------------------------------------------------------------------------
(* Claims on the backpressure middleware, checked under SpecBp *)

\* C2: every acquire() of the backpressure middleware that took a slot is
\* matched by exactly one release(), whether the rest of the pipeline
\* returned or threw; once no call is running, every slot has been given
\* back.
C2_ReleasesMatchAcquires ==
    /\ \A c \in Tasks :
          /\ calls[c].releases <= calls[c].acquires
          /\ calls[c].st = "done" => calls[c].releases = calls[c].acquires
    /\ (\A c \in Tasks : calls[c].st # "run") => inFlight = 0

\* C2 witness: all calls are over; one took a slot and its handler threw,
\* another was refused by the full queue (reject strategy) and took none.
C2_Witness ==
    /\ \A c \in Workers : calls[c].st = "done"
    /\ \E c \in Tasks : /\ calls[c].acquires = 1 /\ calls[c].releases = 1
                        /\ calls[c].res = ErrRes("handler_error")
    /\ \E c \in Tasks : /\ calls[c].acquires = 0
                        /\ calls[c].res = ErrRes("capacity")


\* the calls whose tool handler is executing
Executing == {c \in Tasks : calls[c].st = "run" /\ calls[c].cur = "handler"}

\* C37: at any time at most maxConcurrent tool handlers are executing, and a
\* handler executes only between a successful acquire() of the backpressure
\* middleware of its own call and the matching release(), whatever the
\* middlewares given to use() do with next().
C37_HandlersWithinLimit ==
    /\ Cardinality(Executing) <= maxConcurrent
    /\ \A c \in Executing : /\ qpc[c] = "holding"
                            /\ calls[c].acquires = calls[c].releases + 1
-----------------------------------------------------------------------------
(* An HTTP server from its construction: a tool and a resource registered  *)
(* before startHttp, then concurrent requests, the passing of time and the *)
(* cleanup timer.  No tool-call rate limit, no schema validation, no user  *)
(* middleware; the queue rejects at capacity.                              *)

\* the resources registered before start
PreUris == 1..(NUris - 1)

HRegisterTool(name, scopes) ==
    /\ ~started
    /\ tools = <<>>
    /\ RegisterTool(name, scopes)
    /\ UNCHANGED <<extvars, qvars, rlvars, pipevars, httpvars>>

HRegisterResource(uri) ==
    /\ ~started
    /\ resources = {}
    /\ RegisterResource(uri)
    /\ UNCHANGED <<extvars, qvars, rlvars, pipevars, httpvars>>

HStartHttp ==
    /\ tools # <<>>
    /\ resources # {}
    /\ StartHttp
    /\ UNCHANGED <<extvars, qvars, rlvars>>

\* the tokens tried: none, one the provider rejects, one it verifies
HttpTokens == {"none", "bad", "t1"}

\* the initialize requests being handled
InitializesInFlight ==
    Cardinality({c \in Tasks : /\ reqs[c].method = "initialize"
                               /\ reqs[c].st = "body"})

\* The requests tried.  The handlers do not look at the session id of an
\* initialize, nor at the token of an initialize or when no provider is
\* configured.
HArrive(c, method, sid, token) ==
    /\ sid = 0 \/ sid <= sessionSeq \/ sid = MaxSessionIds + 1
    /\ method = "initialize" =>
          /\ sid = 0 /\ token = "none"
          /\ sessionSeq + InitializesInFlight < MaxSessionIds
    /\ token \in HttpTokens
    /\ ~authProvider => token = "none"
    /\ HttpArrive(c, method, sid, token)

\* A body that is too large or is not JSON names no method: such bodies are
\* tried on the requests of method "other".
HPostBody(c, outcome, toolName, uri) ==
    /\ outcome # "ok" => reqs[c].method = "other"
    /\ PostBody(c, outcome, toolName, uri)

HCleanupTimer ==
    /\ CleanupTimer
    /\ UNCHANGED <<extvars, qvars, rlvars, regvars, pipevars>>

\* timers fire on time: the clock waits for a cleanup that is due
HTick ==
    /\ started
    /\ now < nextCleanupAt
    /\ Tick(MaxTime)
    /\ UNCHANGED <<extvars, qvars, regvars, pipevars, httpvars>>

HttpNext ==
    \/ \E t \in PreTools : HRegisterTool(t, <<>>)
    \/ \E u \in PreUris : HRegisterResource(u)
    \/ HStartHttp
    \/ \E c \in Workers, m \in Methods, sid \in SessionIds, k \in Tokens :
          HArrive(c, m, sid, k)
    \/ \E c \in Workers, o \in {"ok", "too_large", "bad_json"},
          t \in ToolNames, u \in Uris : HPostBody(c, o, t, u)
    \/ \E c \in Workers : PostToolDone(c)
    \/ \E c \in Workers, a \in BOOLEAN : GetAccept(c, a)
    \/ \E c \in Workers, u \in Uris : AuthVerifiedHttp(c, u)
    \/ \E c \in Workers, ok \in BOOLEAN : ReadDone(c, ok)
    \/ \E c \in Workers : SseCancel(c)
    \/ \E c \in Workers : CallStep(c)
    \/ \E c \in Workers : CallAuthVerified(c)
    \/ HCleanupTimer
    \/ HTick

\* new RequestQueue({ maxConcurrent: 1, strategy: 'reject' })
HttpQueueInit ==
    /\ PipeQueueInit
    /\ strategy = "reject"

HttpPipeInit ==
    /\ PipeConfigInit
    /\ rateLimit = "none"
    /\ schemaValidator = FALSE

InitHttp ==
    HttpQueueInit /\ RLIdle /\ RegInit /\ HttpPipeInit /\ HttpInit
    /\ httpRateLimit \in {"none", "reject"}
    /\ ExtIdle

SpecHttp == InitHttp /\ [][HttpNext]_vars


-----------------------------------------------------------------------------
(* Claims about the HTTP transport.                                         *)

\* a token the auth provider does not verify: missing, or rejected
Unverified(r) == r.token \in {"none", "bad"}

\* the methods C7 names
GatedMethods ==
    {"tools/call", "tools/list", "resources/list", "resources/read", "GET"}

\* the request was answered by a check that precedes the token's: the
\* per-IP rate limit, the body's size or parse, the session lookup of a
\* POST, the Accept header of a GET
EarlierCheckAnswered(r) ==
    \/ r.resp.status = 429
    \/ r.resp.status = 413
    \/ r.resp.code = -32700
    \/ r.method # "GET" /\ r.resp.status = 404 /\ r.sessionCheck = "unknown"
    \/ r.method = "GET" /\ r.resp.status = 405

\* the request got as far as the token's check
TokenChecked(c) == reqs[c].authChecked \/ calls[c].st = "done"

InitializeAtLimit(c) ==
    /\ reqs[c].method = "initialize"
    /\ reqs[c].st = "body"
    /\ reqs'[c].st = "answered"
    /\ reqs'[c].resp.status = 503 \/ reqs'[c].created # 0
    /\ Size(sessions) >= MAX_SESSIONS

\* C9: the session map never holds more than MAX_SESSIONS sessions; an
\* initialize that finds it at the limit runs the cleanup (no expired
\* session is left), and when the map is still at the limit it is answered
\* 503 and creates no session.
C9_SessionsWithinLimit ==
    /\ [](/\ Size(sessions) <= MAX_SESSIONS
          /\ \A c \in Tasks :
                (/\ reqs[c].method = "initialize"
                 /\ reqs[c].st = "answered"
                 /\ reqs[c].sizeBefore >= MAX_SESSIONS
                 /\ reqs[c].sizeBefore - reqs[c].cleaned >= MAX_SESSIONS)
                => /\ reqs[c].resp.status = 503
                   /\ reqs[c].created = 0)
    /\ [][\A c \in Tasks :
            InitializeAtLimit(c) =>
                /\ \A id \in DOMAIN sessions' : ~Expired(sessions'[id])
                /\ reqs'[c].resp.status = 503 => sessionSeq' = sessionSeq]_vars

\* an initialize found the map at the limit, its cleanup removed nothing,
\* and it was answered 503
C9_Witness ==
    \E c \in Tasks :
        /\ reqs[c].method = "initialize"
        /\ reqs[c].resp.status = 503
        /\ reqs[c].sizeBefore = MAX_SESSIONS
        /\ reqs[c].cleaned = 0
        /\ Size(sessions) = MAX_SESSIONS

C11_ActiveSessionsKept ==
    [][\A id \in (DOMAIN sessions) \ (DOMAIN sessions') :
          now - sessions[id] > SESSION_TTL_MS + SESSION_GRACE_PERIOD_MS]_vars

\* the timer's cleanup has run over a session that was idle, but not for
\* longer than TTL + grace, and the session is still there
C11_Witness ==
    /\ nextCleanupAt >= 2 * SESSION_CLEANUP_INTERVAL_MS
    /\ \E id \in DOMAIN sessions :
          /\ sessions[id] < nextCleanupAt - SESSION_CLEANUP_INTERVAL_MS
          /\ now - sessions[id] <= SESSION_TTL_MS + SESSION_GRACE_PERIOD_MS

\* the client IP has used up its initialize budget: maxRequests initialize
\* requests of that IP were let through within the window that ends now
InitBudgetConsumed == GrantedInWindow("init", 1) >= maxRequests["init"]

\* C26: an initialize request from a client IP that has already consumed its
\* per-IP initialize budget is answered with 429 and creates no session: the
\* session map is unchanged by the step that answers it.
C26_OverBudgetInitializeRefused ==
    [][\A c \in Tasks :
          (/\ InitBudgetConsumed
           /\ reqs[c].st # "answered" /\ reqs'[c].st = "answered"
           /\ reqs'[c].method = "initialize")
              => /\ reqs'[c].resp.status = 429
                 /\ reqs'[c].resp.served = "none"
                 /\ sessions' = sessions
                 /\ sessionSeq' = sessionSeq]_vars

\* without a general HTTP rate limit, an initialize has been answered 429 by
\* the per-IP initialize limiter while the session created by the earlier
\* initialize of that IP is in the map
C26_Witness ==
    \E c, d \in Tasks :
        /\ httpRateLimit = "none"
        /\ reqs[c].st = "answered" /\ reqs[c].method = "initialize"
        /\ reqs[c].resp.status = 429 /\ reqs[c].resp.code = -32000
        /\ reqs[d].st = "answered" /\ reqs[d].method = "initialize"
        /\ reqs[d].resp.status = 200 /\ reqs[d].created \in DOMAIN sessions
        /\ sessionSeq = 1

\* the POST request of task c was made on a session the handler found, and
\* its method is still being executed
ExecutingOnSession(c) ==
    /\ reqs[c].st \in {"pipeline", "reading", "verify"}
    /\ reqs[c].method # "GET"
    /\ reqs[c].sessionCheck \in {"fresh", "stale"}

\* C27 (as claimed): a session is never removed while a request made on that
\* session is still executing.
C27_NoReapWhileExecuting ==
    [][\A c \in Tasks :
          (ExecutingOnSession(c) /\ reqs[c].sid \in DOMAIN sessions)
              => reqs[c].sid \in DOMAIN sessions']_vars

\* in this step the POST of task c, whose body was read and parsed, goes
\* through the handler's session check
PostDispatched(c) ==
    /\ reqs[c].st = "body" /\ reqs'[c].st # "body"
    /\ reqs'[c].resp.status # 413 /\ reqs'[c].resp.code # -32700

\* in this step the GET of task c opens its SSE stream
StreamOpened(c) == reqs[c].st # "streaming" /\ reqs'[c].st = "streaming"

\* C28 (as claimed): every non-initialize request that presents the id of an
\* existing session, a POST of any method or a GET that opens an SSE stream,
\* sets that session's lastActivity to the current time.
C28_RequestRefreshesSession ==
    [][\A c \in Tasks :
          (/\ reqs[c].method # "initialize"
           /\ reqs[c].sid \in DOMAIN sessions
           /\ PostDispatched(c) \/ StreamOpened(c))
              => /\ reqs[c].sid \in DOMAIN sessions'
                 /\ sessions'[reqs[c].sid] = now']_vars

\* C33 (as claimed): a tool call rejected by backpressure (reject strategy,
\* queue at capacity) is answered with HTTP status 200 and a JSON-RPC error
\* of code -32000.
C33_CapacityErrorCode ==
    \A c \in Tasks :
        (/\ reqs[c].st = "answered"
         /\ reqs[c].method = "tools/call"
         /\ calls[c].res = ErrRes("capacity"))
            => reqs[c].resp.status = 200 /\ reqs[c].resp.code = -32000
-----------------------------------------------------------------------------
(* The session reaper at work on a running HTTP server: sessions are       *)
(* opened, used by later POSTs, listened to on SSE streams, while time     *)
(* passes and the cleanup timer fires                                      *)

\* the requests tried: initialize, a POST of a method the server does not
\* know, and the GET of a stream
RArrive(c, method, sid, token) ==
    /\ method \in {"initialize", "other", "GET"}
    /\ HArrive(c, method, sid, token)

RPostBody(c) == HPostBody(c, "ok", 1, 1)

ReaperNext ==
    \/ \E t \in PreTools : HRegisterTool(t, <<>>)
    \/ \E u \in PreUris : HRegisterResource(u)
    \/ HStartHttp
    \/ \E c \in Workers, m \in Methods, sid \in SessionIds, k \in Tokens :
          RArrive(c, m, sid, k)
    \/ \E c \in Workers : RPostBody(c)
    \/ \E c \in Workers, a \in BOOLEAN : GetAccept(c, a)
    \/ \E c \in Workers : AuthVerifiedHttp(c, 1)
    \/ \E c \in Workers : SseCancel(c)
    \/ HCleanupTimer
    \/ HTick

InitReaper == InitHttp /\ httpRateLimit = "none"

SpecReaper == InitReaper /\ [][ReaperNext]_vars

\* the interval timer fires when it is due, and time passes
ReaperFairness == WF_vars(HCleanupTimer) /\ WF_vars(HTick)

SpecReaperLive == InitReaper /\ [][ReaperNext]_vars /\ ReaperFairness

\* session sid has been idle for longer than SESSION_TTL + GRACE
IdleTooLong(sid) == sid \in DOMAIN sessions /\ Expired(sessions[sid])

-----------------------------------------------------------------------------
(* An HTTP server whose IP rate limit waits (onLimitExceeded "wait", one   *)
(* request per window): requests of one client IP arrive while time       *)
(* passes.  No session is opened, the cleanup timer has nothing to do and   *)
(* is left out.                                                            *)

\* the requests tried: a POST of a method the server does not know, and the
\* GET of a stream, on no session
WArrive(c, method, token) ==
    /\ method \in {"other", "GET"}
    /\ token \in HttpTokens
    /\ ~authProvider => token = "none"
    /\ HttpArriveWait(c, method, 0, token)

WPostBody(c) == HPostBody(c, "ok", 1, 1)

\* timers fire on time: the clock waits for a retry that is due
WTick ==
    /\ started
    /\ \A c \in Tasks : reqs[c].st = "ratewait" => now < wakeAt[c]
    /\ Tick(MaxTime)
    /\ UNCHANGED <<extvars, qvars, regvars, pipevars, httpvars>>

HttpWaitNext ==
    \/ \E t \in PreTools : HRegisterTool(t, <<>>)
    \/ \E u \in PreUris : HRegisterResource(u)
    \/ HStartHttp
    \/ \E c \in Tasks, m \in Methods, k \in Tokens : WArrive(c, m, k)
    \/ \E c \in Tasks : HttpWaitRetry(c)
    \/ \E c \in Tasks : WPostBody(c)
    \/ \E c \in Tasks, a \in BOOLEAN : GetAccept(c, a)
    \/ \E c \in Tasks : AuthVerifiedHttp(c, 1)
    \/ \E c \in Tasks : SseCancel(c)
    \/ WTick

InitHttpWait ==
    HttpQueueInit /\ RLIdle /\ RegInit /\ HttpPipeInit /\ HttpInit
    /\ httpRateLimit = "wait"
    /\ ExtIdle

SpecHttpWait == InitHttpWait /\ [][HttpWaitNext]_vars

\* the request of task c is held by the rate limit before this step: it
\* arrives in this step, or it is sleeping in waitForSlot
HeldByRateLimit(c) ==
    /\ reqs[c].st \in {"idle", "ratewait"}
    /\ reqs'[c].st # reqs[c].st

\* the IP has used up its requests of the window that ends now
OverLimit == GrantedInWindow("http", 1) >= maxRequests["http"]

-----------------------------------------------------------------------------
(* A MessageSigner from its construction: init(), sign() and verify()      *)
(* calls on messages of every shape, one verify() per task, the calls of   *)
(* different tasks in progress at once.  reset(), which sets the counters  *)
(* back on purpose, is not part of the runs.                               *)

SKey ==
    /\ ~cryptoKey
    /\ InitKey
    /\ UNCHANGED nonsig

SSign(body) ==
    /\ sendSeq < MaxSign
    /\ Sign(body)
    /\ UNCHANGED nonsig

SVerify(c, msg) ==
    /\ Verify(c, msg)
    /\ UNCHANGED nonsig

SVerifyDone(c) ==
    /\ VerifyDone(c)
    /\ UNCHANGED nonsig

SignerNext ==
    \/ SKey
    \/ \E b \in Bodies : SSign(b)
    \/ \E c \in Workers, m \in Messages : SVerify(c, m)
    \/ \E c \in Workers : SVerifyDone(c)

InitSigner ==
    QueueIdle /\ RLIdle /\ RegIdle /\ PipeIdle /\ HttpIdle /\ SignerInit
    /\ RLQueryIdle /\ JwtIdle /\ ScopesIdle /\ SseIdle /\ StopIdle

SpecSigner == InitSigner /\ [][SignerNext]_vars

-----------------------------------------------------------------------------
(* Claims on the MessageSigner, checked under SpecSigner *)

\* the message's _hmac is the HMAC, under the channel's secret, of the
\* message's own content and number
SignatureVerifies(msg) ==
    /\ msg.hmac.kind = "hex"
    /\ msg.hmac.key = SecretHex
    /\ msg.hmac.payload = <<msg.seq, msg.body>>

\* task c's verify() returns valid in this step
Accepts(c) ==
    /\ verifs[c].st # "done"
    /\ verifs'[c].st = "done"
    /\ verifs'[c].res.valid

C13_LastRecvSeqStrictlyIncreases ==
    [][/\ lastRecvSeq' >= lastRecvSeq
       /\ \A c \in Tasks : Accepts(c) => lastRecvSeq' > lastRecvSeq]_vars

-----------------------------------------------------------------------------
(* Callers of one JwtAuthProvider: verifyToken calls in progress at once,  *)
(* while time passes                                                       *)

JVerifyToken(c, j) ==
    /\ VerifyToken(c, j)
    /\ UNCHANGED nonjwt

JLookup(c) ==
    /\ VerifyTokenLookup(c)
    /\ UNCHANGED nonjwt

JVerified(c, good) ==
    /\ VerifyTokenVerified(c, good)
    /\ UNCHANGED nonjwt

JTick ==
    /\ Tick(MaxTime)
    /\ UNCHANGED nonrl

JwtNext ==
    \/ \E c \in Workers, j \in JwtTokens : JVerifyToken(c, j)
    \/ \E c \in Workers : JLookup(c)
    \/ \E c \in Workers, good \in BOOLEAN : JVerified(c, good)
    \/ JTick

InitJwt ==
    QueueIdle /\ RLIdle /\ RegIdle /\ PipeIdle /\ HttpIdle /\ SignerIdle
    /\ RLQueryIdle /\ JwtInit /\ ScopesIdle /\ SseIdle /\ StopIdle

SpecJwt == InitJwt /\ [][JwtNext]_vars

-----------------------------------------------------------------------------
(* Claims on the token cache, checked under SpecJwt *)

\* C22: the token cache never holds more than MAX_CACHE_SIZE entries, under
\* any interleaving of verifyToken calls in progress at once.
C22_CacheBounded == Len(tokenCache) <= MAX_CACHE_SIZE

\* the cache is full and a verified token that would still be live in it is
\* no longer there: it was the oldest entry when another token was inserted
C22_Witness ==
    /\ Len(tokenCache) = MAX_CACHE_SIZE
    /\ \E c \in Tasks :
          /\ jwtCalls[c].st = "done" /\ jwtCalls[c].res.kind = "verified"
          /\ jwtCalls[c].res.at = now
          /\ CacheTtl(jwtCalls[c].token) > 0
          /\ CacheIndex(tokenCache, jwtCalls[c].token) = 0

-----------------------------------------------------------------------------
(* extractScopes applied to the jwtPayload of a verified token *)

SExtract ==
    /\ Extract
    /\ UNCHANGED nonscope

ScopesNext == SExtract

InitScopes ==
    QueueIdle /\ RLIdle /\ RegIdle /\ PipeIdle /\ HttpIdle /\ SignerIdle
    /\ RLQueryIdle /\ JwtIdle /\ ScopesInit /\ SseIdle /\ StopIdle

SpecScopes == InitScopes /\ [][ScopesNext]_vars

\* C24 (as claimed): after a successful verification AuthInfo.scopes holds no
\* empty string, whether the scopes come from the scope claim or from the
\* scp claim.
C24_NoEmptyScope ==
    extracted.done =>
        \A i \in 1..Len(extracted.scopes) : extracted.scopes[i] # <<>>
-----------------------------------------------------------------------------
(* SSE streams opened, cancelled, broken and reaped, and messages sent to  *)
(* them, while time passes                                                 *)

MaxSseTime == 2     \* the clock stops here

XStart(c, key, last) ==
    /\ StreamStart(c, key, last)
    /\ UNCHANGED nonsse

XCancel(c) ==
    /\ StreamCancel(c)
    /\ UNCHANGED nonsse

XBreak(c) ==
    /\ StreamBreak(c)
    /\ UNCHANGED nonsse

XReap(key) ==
    /\ SseReap(key)
    /\ UNCHANGED nonsse

XSendToSession(key) ==
    /\ SendToSession(key)
    /\ UNCHANGED nonsse

XBroadcast ==
    /\ BroadcastNotification
    /\ UNCHANGED nonsse

XTick ==
    /\ Tick(MaxSseTime)
    /\ UNCHANGED nonrl

SseNext ==
    \/ \E c \in SseClientIds, key \in SseKeys, last \in 0..MaxLastEventId :
          XStart(c, key, last)
    \/ \E c \in SseClientIds : XCancel(c)
    \/ \E c \in SseClientIds : XBreak(c)
    \/ \E key \in SseKeys : XReap(key)
    \/ \E key \in SseKeys : XSendToSession(key)
    \/ XBroadcast
    \/ XTick

InitSse ==
    QueueIdle /\ RLIdle /\ RegIdle /\ PipeIdle /\ HttpIdle /\ SignerIdle
    /\ RLQueryIdle /\ JwtIdle /\ ScopesIdle /\ SseInit /\ StopIdle

SpecSse == InitSse /\ [][SseNext]_vars

\* every client registered under key has a controller that accepts frames
NoDeadIn(m, key) ==
    \A i \in 1..Len(ClientsOf(m, key)) : controllers[m[key][i].cid].st = "open"

\* C29: no dead SSE client stays registered: a send to a session leaves no
\* client whose enqueue failed in the session's list, the cancellation of a
\* stream leaves its client in no list, and the SSE-client map never holds
\* an empty list.
C29_DeadClientsRemoved ==
    [][/\ \A key \in SseKeys :
             XSendToSession(key) => NoDeadIn(sseLists', key)
       /\ XBroadcast => \A key \in SseKeys : NoDeadIn(sseLists', key)
       /\ \A c \in SseClientIds : XCancel(c) => ~Registered(sseLists', c)
       /\ \A key \in DOMAIN sseLists' : Len(sseLists'[key]) > 0]_vars

\* a broken client was removed by a send and a client by its cancellation,
\* and the list they leave behind was dropped
C29_Witness ==
    /\ \E c \in SseClientIds :
          /\ controllers[c].st = "broken"
          /\ ~Registered(sseLists, c)
          /\ controllers[c].key \notin DOMAIN sseLists
    /\ \E c \in SseClientIds :
          /\ controllers[c].st = "cancelled"
          /\ controllers[c].key \notin DOMAIN sseLists

\* C30 (as claimed): each message sent carries an event id larger than the
\* event id of every message sent before it.
C30_EventIdsIncrease ==
    \A i, j \in 1..Len(sentIds) : i < j => sentIds[i] < sentIds[j]
-----------------------------------------------------------------------------
(* An HTTP server that is stopped: sessions are opened, SSE streams are    *)
(* opened and cancelled, sampling requests come and go, the cleanup timer  *)
(* runs, and stop() is called, possibly by two callers                     *)

\* the requests tried: initialize and the GET of a stream; the listener
\* accepts no request once its shutdown has begun
ZArrive(c, method, sid, token) ==
    /\ httpShutdown = "no"
    /\ method \in {"initialize", "GET"}
    /\ HArrive(c, method, sid, token)

ZPostBody(c) == HPostBody(c, "ok", 1, 1)

\* startHttp() is not called again once stop() has run
ZStartHttp ==
    /\ httpShutdown = "no" /\ ~protocolClosed
    /\ HStartHttp

\* the interval timer fires until stop() clears it
ZCleanupTimer ==
    /\ ~timerCleared
    /\ HCleanupTimer

\* timers fire on time: the clock waits for a cleanup that is due
ZTick ==
    /\ started
    /\ timerCleared \/ now < nextCleanupAt
    /\ Tick(MaxTime)
    /\ UNCHANGED <<extvars, qvars, regvars, pipevars, httpvars>>

\* sampling is asked for by the handlers of a started server
ZRequestSampling ==
    /\ started
    /\ RequestSampling
    /\ UNCHANGED <<servervars, nonstopext>>

ZSamplingSettled ==
    /\ SamplingSettled
    /\ UNCHANGED <<servervars, nonstopext>>

StopNext ==
    \/ \E t \in PreTools : HRegisterTool(t, <<>>)
    \/ \E u \in PreUris : HRegisterResource(u)
    \/ ZStartHttp
    \/ \E c \in Workers, m \in Methods, sid \in SessionIds, k \in Tokens :
          ZArrive(c, m, sid, k)
    \/ \E c \in Workers : ZPostBody(c)
    \/ \E c \in Workers, a \in BOOLEAN : GetAccept(c, a)
    \/ \E c \in Workers : AuthVerifiedHttp(c, 1)
    \/ \E c \in Workers : SseCancel(c)
    \/ ZCleanupTimer
    \/ ZTick
    \/ ZRequestSampling
    \/ ZSamplingSettled
    \/ \E s \in Stoppers : StopBegin(s)
    \/ \E s \in Stoppers : StopListenerDown(s)
    \/ \E s \in Stoppers : StopClosed(s)

InitStop ==
    HttpQueueInit /\ RLIdle /\ RegInit /\ HttpPipeInit /\ HttpInit
    /\ httpRateLimit = "none"
    /\ SignerIdle /\ RLQueryIdle /\ JwtIdle /\ ScopesIdle /\ SseIdle
    /\ StopInit

SpecStop == InitStop /\ [][StopNext]_vars

\* stop() call s made step a before step b, if it made both
Before(s, a, b) ==
    \A i, j \in 1..Len(stops[s].log) :
        stops[s].log[i] = a /\ stops[s].log[j] = b => i < j

ShutdownOrder == <<"timer", "sampling", "sse", "listener", "protocol">>

\* C31: a stop() call makes its shutdown steps in the order session reaper,
\* sampling requests, SSE clients, HTTP listener, protocol server; and at
\* the step in which the listener's shutdown begins the reaper is cancelled,
\* no sampling request is pending and no SSE client is registered.
C31_ShutdownOrder ==
    [][/\ \A s \in Stoppers : \A i, j \in 1..Len(ShutdownOrder) :
             i < j => Before(s, ShutdownOrder[i], ShutdownOrder[j])'
       /\ (httpShutdown = "no" /\ httpShutdown' = "begun") =>
             /\ timerCleared'
             /\ pendingRequests' = 0
             /\ sseClients' = <<>>
       /\ (~protocolClosed /\ protocolClosed') => httpShutdown' = "done"]_vars

\* a stop() call has gone through all its steps on a server that had an SSE
\* client registered and a sampling request pending when the call began
C31_Witness ==
    \E s \in Stoppers :
        /\ stops[s].pc = "done"
        /\ stops[s].log = ShutdownOrder
        /\ \E c \in Workers : reqs[c].st = "streaming"
        /\ ~started

\* a stop() call on a started server has closed the SSE clients and deleted
\* their keys
StopHasRun == \E s \in Stoppers : Len(stops[s].log) > 0

\* C40: every key of the SSE-client map is "anonymous" or the id of a session
\* in the session map, and no key maps to an empty list; once stop() has
\* run, no SSE client is registered.
C40_SseKeysLive ==
    /\ \A k \in DOMAIN sseClients :
          /\ k = 0 \/ k \in DOMAIN sessions
          /\ sseClients[k] # {}
    /\ StopHasRun => sseClients = <<>>
=============================================================================
